---------------------------- MODULE Spec2Model ----------------------------
(***************************************************************************)
(* A model of the vector-chunk package: the VectorStore (insertion,        *)
(* validation, linear-scan search, snapshot save/load, bulk import), the   *)
(* TextChunker (short-document path and the four chunking strategies), the *)
(* ParallelChunker (split, worker events, join and merge), the LazyChunker *)
(* (index, proxies and memoized materialization) and the StreamingChunker  *)
(* (_transform, _flush and the extraction loop).                           *)
(*                                                                         *)
(* JavaScript strings are sequences of one-character strings.  A JavaScript*)
(* object is a record; a field that is undefined is a field the record does*)
(* not have.  An optional argument is a sequence of length 0 or 1.         *)
(* Floating-point numbers are fixed-point integers: a vector component is  *)
(* counted in units of 1/Scale and a similarity score in units of          *)
(* 1/ScoreScale.                                                           *)
(***************************************************************************)
EXTENDS Integers, Sequences, FiniteSets, TLC

VARIABLES chunks, index, vectorCache, config, file, out, tcConfig, tcText, tcOut,
          numWorkers, workers, call,
          isIndexed, chunkPositions, processedChunks, now, proxies, lzHistory, lzOut,
          scInput, buffer, scChunkIndex, scPushed, stream

vars == <<chunks, index, vectorCache, config, file, out, tcConfig, tcText, tcOut,
          numWorkers, workers, call,
          isIndexed, chunkPositions, processedChunks, now, proxies, lzHistory, lzOut,
          scInput, buffer, scChunkIndex, scPushed, stream>>
storeVars == <<chunks, index, vectorCache, config, file, out>>
chunkerVars == <<tcConfig, tcText, tcOut>>
\* the ParallelChunker: its worker count, the workers of the call in progress
\* and the promise chunkTextParallel returned
parallelVars == <<numWorkers, workers, call>>
\* the LazyChunker: its fields, the clock, the proxies handed out
lazyVars == <<isIndexed, chunkPositions, processedChunks, now, proxies, lzHistory, lzOut>>
\* the StreamingChunker: the input not yet written to it, its buffer and
\* chunkIndex, the chunks pushed downstream, and how far the stream has got
streamVars == <<scInput, buffer, scChunkIndex, scPushed, stream>>
componentVars == <<parallelVars, lazyVars, streamVars>>

(***************************************************************************)
(* Bounds of the model.                                                    *)
(***************************************************************************)
MaxChunks == 2
MaxSearchChunks == 3
MaxSnapshotChunks == 2
MaxTextLen == 5

(***************************************************************************)
(* Fixed-point units.                                                      *)
(***************************************************************************)
Scale == 10 * 10
ScoreScale == 10 * 10

(***************************************************************************)
(* Strings.                                                                *)
(***************************************************************************)
SP == " "
NL == "\n"

IsSpace(c) == c \in {SP, NL}

RECURSIVE TrimStart(_)
TrimStart(s) ==
  IF s # <<>> /\ IsSpace(Head(s)) THEN TrimStart(Tail(s)) ELSE s

RECURSIVE TrimEnd(_)
TrimEnd(s) ==
  IF s # <<>> /\ IsSpace(s[Len(s)]) THEN TrimEnd(SubSeq(s, 1, Len(s) - 1)) ELSE s

\* String.prototype.trim
Trim(s) == TrimEnd(TrimStart(s))

\* String.prototype.slice(from, to) for 0 <= from, counted from 0, end exclusive
Slice(s, from, to) ==
  SubSeq(s, from + 1, IF to > Len(s) THEN Len(s) ELSE to)

Min(a, b) == IF a < b THEN a ELSE b
Max(a, b) == IF a > b THEN a ELSE b


(***************************************************************************)
(* Numbers.  A numeric result of VectorMath is a number, NaN (a component  *)
(* read past the end of values is undefined, and arithmetic on undefined   *)
(* gives NaN) or a thrown Error.                                           *)
(***************************************************************************)
Num(v) == [kind |-> "num", value |-> v]
NaN == [kind |-> "nan", value |-> 0]
Throw(msg) == [kind |-> "throw", value |-> 0, message |-> msg]

DimensionError == "Vectors must have the same dimension"
TypeError == "TypeError"
NoError == ""

RECURSIVE SqrtSearch(_, _, _)
SqrtSearch(n, lo, hi) ==
  IF lo >= hi THEN lo
  ELSE LET mid == (lo + hi + 1) \div 2
       IN IF mid * mid <= n THEN SqrtSearch(n, mid, hi)
                            ELSE SqrtSearch(n, lo, mid - 1)

\* Math.sqrt on fixed-point squares: the floor of the square root
Sqrt(n) == SqrtSearch(n, 0, Min(n, 46340))

Abs(x) == IF x < 0 THEN -x ELSE x

RECURSIVE SumRange(_, _, _)
\* f[lo] + ... + f[hi], summed by halves
SumRange(f, lo, hi) ==
  IF lo > hi THEN 0
  ELSE IF lo = hi THEN f[lo]
  ELSE SumRange(f, lo, (lo + hi) \div 2) + SumRange(f, (lo + hi) \div 2 + 1, hi)

\* f[1] + ... + f[n]
SumTo(f, n) == SumRange(f, 1, n)

RECURSIVE SumOver(_)
\* the sum of f over its domain
SumOver(f) ==
  IF DOMAIN f = {} THEN 0
  ELSE LET i == CHOOSE i \in DOMAIN f : TRUE
       IN f[i] + SumOver([l \in DOMAIN f \ {i} |-> f[l]])

\* a.values[i] or b.values[i] is undefined for some i below a.dimension
ReadsUndefined(a, b) ==
  Len(a.values) < a.dimension \/ Len(b.values) < a.dimension

(***************************************************************************)
(* VectorMath                                                              *)
(***************************************************************************)
cosineSimilarity(a, b) ==
  IF a.dimension # b.dimension THEN Throw(DimensionError)
  ELSE IF ReadsUndefined(a, b) THEN NaN
  ELSE LET d == a.dimension
           dotProd == SumTo([i \in 1..d |-> a.values[i] * b.values[i]], d)
           normA == SumTo([i \in 1..d |-> a.values[i] * a.values[i]], d)
           normB == SumTo([i \in 1..d |-> b.values[i] * b.values[i]], d)
           denominator == Sqrt(normA) * Sqrt(normB)
       IN IF denominator = 0 THEN Num(0)
          ELSE Num((dotProd * ScoreScale) \div denominator)

euclideanDistance(a, b) ==
  IF a.dimension # b.dimension THEN Throw(DimensionError)
  ELSE IF ReadsUndefined(a, b) THEN NaN
  ELSE LET d == a.dimension
           sum == SumTo([i \in 1..d |->
                    (a.values[i] - b.values[i]) * (a.values[i] - b.values[i])], d)
       IN Num(Sqrt(sum))

manhattanDistance(a, b) ==
  IF a.dimension # b.dimension THEN Throw(DimensionError)
  ELSE IF ReadsUndefined(a, b) THEN NaN
  ELSE LET d == a.dimension
       IN Num(SumTo([i \in 1..d |-> Abs(a.values[i] - b.values[i])], d))

dotProduct(a, b) ==
  IF a.dimension # b.dimension THEN Throw(DimensionError)
  ELSE IF ReadsUndefined(a, b) THEN NaN
  ELSE LET d == a.dimension
       IN Num(SumTo([i \in 1..d |-> a.values[i] * b.values[i]], d))

normalize(vector) ==
  LET n == Len(vector.values)
      norm == Sqrt(SumTo([i \in 1..n |-> vector.values[i] * vector.values[i]], n))
  IN IF norm = 0
     THEN [vector EXCEPT !.values = [i \in 1..vector.dimension |-> 0]]
     ELSE [vector EXCEPT !.values =
             [i \in 1..n |-> (vector.values[i] * Scale) \div norm]]

(***************************************************************************)
(* Objects and maps.                                                       *)
(***************************************************************************)
Has(obj, f) == f \in DOMAIN obj

\* the key under which a Map files a value whose key expression is undefined
Undefined == "undefined"

EmptyMap == [k \in {} |-> <<>>]
MapSet(m, k, v) == (k :> v) @@ m
MapDelete(m, k) == [j \in DOMAIN m \ {k} |-> m[j]]
\* a Map that answers no to every has
MapHasNever(m, k) == FALSE
MapHas(m, k) == k \in DOMAIN m

IdOf(chunk) == IF Has(chunk, "id") THEN chunk.id ELSE Undefined
VectorOf(chunk) == IF Has(chunk, "vector") THEN <<chunk.vector>> ELSE <<>>

\* !chunk.id, !chunk.content
NoId(chunk) == ~Has(chunk, "id") \/ chunk.id = ""
NoContent(chunk) == ~Has(chunk, "content") \/ chunk.content = <<>>

(***************************************************************************)
(* VectorStore: the private helpers.                                       *)
(***************************************************************************)
MissingFieldsError == "Invalid chunk: missing required fields"
DimensionMismatchError == "Invalid chunk: vector dimension mismatch"
EmptyContentError == "Invalid chunk: empty content"
ValidationErrors == {MissingFieldsError, DimensionMismatchError, EmptyContentError}

\* validateChunk with the whitespace-only check left out
validateChunkNoTrim(chunk) ==
  IF NoId(chunk) \/ NoContent(chunk) \/ ~Has(chunk, "vector")
  THEN MissingFieldsError
  ELSE IF Len(chunk.vector.values) # chunk.vector.dimension
  THEN DimensionMismatchError
  ELSE NoError

\* the message of the Error validateChunk throws, NoError when it returns
validateChunk(chunk) ==
  IF NoId(chunk) \/ NoContent(chunk) \/ ~Has(chunk, "vector")
  THEN MissingFieldsError
  ELSE IF Len(chunk.vector.values) # chunk.vector.dimension
  THEN DimensionMismatchError
  ELSE IF Len(Trim(chunk.content)) = 0
  THEN EmptyContentError
  ELSE NoError

calculateSimilarity(cfg, a, b) ==
  LET inverse(d) == IF d.kind = "num"
                    THEN Num((ScoreScale * Scale) \div (Scale + d.value))
                    ELSE d
      dot == dotProduct(a, b)
  IN CASE cfg.similarityMetric = "cosine" -> cosineSimilarity(a, b)
       [] cfg.similarityMetric = "euclidean" -> inverse(euclideanDistance(a, b))
       [] cfg.similarityMetric = "manhattan" -> inverse(manhattanDistance(a, b))
       [] cfg.similarityMetric = "dot" ->
            IF dot.kind = "num"
            THEN Num((dot.value * ScoreScale) \div (Scale * Scale))
            ELSE dot
       [] OTHER -> cosineSimilarity(a, b)

(***************************************************************************)
(* VectorStore: the state is st = [chunks, index, vectorCache]; an         *)
(* operation gives the state it leaves and the message of the Error it     *)
(* throws (NoError when it returns).                                       *)
(***************************************************************************)
DefaultMaxResults == 10
DefaultBatchSize == 1000

EmptyStore == [chunks |-> <<>>, index |-> EmptyMap, vectorCache |-> EmptyMap]

DefaultOptions ==
  [validateInput |-> TRUE, normalizeVectors |-> FALSE, batchSize |-> 0]

\* addChunk with the chunk pushed before it is validated
addChunkPushFirst(st, chunk, options) ==
  [st |-> [chunks |-> Append(st.chunks, chunk),
           index |-> MapSet(st.index, IdOf(chunk), chunk),
           vectorCache |-> MapSet(st.vectorCache, IdOf(chunk), VectorOf(chunk))],
   error |-> IF options.validateInput THEN validateChunk(chunk) ELSE NoError]

addChunk(st, chunk, options) ==
  LET err == IF options.validateInput THEN validateChunk(chunk) ELSE NoError
      stored == IF options.normalizeVectors /\ Has(chunk, "vector")
                THEN [chunk EXCEPT !.vector = normalize(chunk.vector)]
                ELSE chunk
  IN IF err # NoError
     THEN [st |-> st, error |-> err]
     ELSE [st |-> [chunks |-> Append(st.chunks, stored),
                   index |-> MapSet(st.index, IdOf(chunk), stored),
                   vectorCache |-> MapSet(st.vectorCache, IdOf(chunk), VectorOf(chunk))],
           \* VectorMath.normalize(undefined) throws once the chunk is in
           error |-> IF options.normalizeVectors /\ ~Has(chunk, "vector")
                     THEN TypeError ELSE NoError]

RECURSIVE addBatch(_, _, _)
\* the inner loop of addChunks: stops at the first chunk that throws
addBatch(st, batch, options) ==
  IF batch = <<>> THEN [st |-> st, error |-> NoError]
  ELSE LET r == addChunk(st, Head(batch), options)
       IN IF r.error # NoError THEN r
          ELSE addBatch(r.st, Tail(batch), options)

RECURSIVE addChunksFrom(_, _, _, _, _)
addChunksFrom(st, cs, i, batchSize, options) ==
  IF i >= Len(cs) THEN [st |-> st, error |-> NoError]
  ELSE LET r == addBatch(st, Slice(cs, i, i + batchSize), options)
       IN IF r.error # NoError THEN r
          ELSE addChunksFrom(r.st, cs, i + batchSize, batchSize, options)

\* addChunks inserting nothing when a chunk of the batch is invalid
addChunksAllOrNothing(st, cs, options) ==
  LET r == addChunksFrom(st, cs, 0,
             IF options.batchSize = 0 THEN DefaultBatchSize ELSE options.batchSize,
             options)
  IN IF r.error # NoError THEN [st |-> st, error |-> r.error] ELSE r

addChunks(st, cs, options) ==
  addChunksFrom(st, cs, 0,
                IF options.batchSize = 0 THEN DefaultBatchSize ELSE options.batchSize,
                options)

RECURSIVE InsertByScore(_, _)
\* stable: r goes behind every result whose score is not smaller
InsertByScore(sorted, r) ==
  IF sorted = <<>> THEN <<r>>
  ELSE IF Head(sorted).score >= r.score
       THEN <<Head(sorted)>> \o InsertByScore(Tail(sorted), r)
       ELSE <<r>> \o sorted

\* sort left out
SortByScoreNot(results) == results

RECURSIVE SortByScore(_)
\* results.sort((a, b) => b.score - a.score)
SortByScore(results) ==
  IF results = <<>> THEN <<>>
  ELSE InsertByScore(SortByScore(SubSeq(results, 1, Len(results) - 1)),
                     results[Len(results)])

RECURSIVE ScanChunks(_, _, _, _)
\* the loop of search over the stored chunks: the results pushed, or the throw
ScanChunks(cs, cfg, query, results) ==
  IF cs = <<>> THEN [error |-> NoError, results |-> results]
  ELSE LET chunk == Head(cs)
           score == IF Has(chunk, "vector")
                    THEN calculateSimilarity(cfg, query, chunk.vector)
                    ELSE Throw(TypeError)
       IN IF score.kind = "throw"
          THEN [error |-> score.message, results |-> <<>>]
          ELSE ScanChunks(Tail(cs), cfg, query,
                 IF score.kind = "num" /\ score.value >= cfg.threshold
                 THEN Append(results, [chunk |-> chunk, score |-> score.value,
                                       distance |-> ScoreScale - score.value])
                 ELSE results)

\* topK || this.config.maxResults
EffectiveK(cfg, topK) ==
  IF topK = <<>> \/ topK[1] = 0 THEN cfg.maxResults ELSE topK[1]

search(st, cfg, queryVector, topK, options) ==
  LET k == EffectiveK(cfg, topK)
      normalizedQuery == IF options.normalizeVectors
                         THEN normalize(queryVector) ELSE queryVector
      scan == ScanChunks(st.chunks, cfg, normalizedQuery, <<>>)
  IN IF Len(st.chunks) = 0 THEN [error |-> NoError, results |-> <<>>]
     ELSE [scan EXCEPT !.results = Slice(SortByScore(@), 0, k)]

getChunk(st, id) == IF MapHas(st.index, id) THEN <<st.index[id]>> ELSE <<>>

\* the position of the first chunk with that id, counted from 1; 0 if none
FindIndex(cs, id) ==
  IF \E i \in 1..Len(cs) : IdOf(cs[i]) = id
  THEN CHOOSE i \in 1..Len(cs) :
         IdOf(cs[i]) = id /\ \A j \in 1..(i - 1) : IdOf(cs[j]) # id
  ELSE 0

\* removeChunk that takes the chunk from the array only
removeChunkFromArray(st, id) ==
  IF ~MapHas(st.index, id) THEN [st |-> st, returns |-> FALSE]
  ELSE LET i == FindIndex(st.chunks, id)
       IN [st |-> [st EXCEPT !.chunks = SubSeq(st.chunks, 1, i - 1) \o
                                         SubSeq(st.chunks, i + 1, Len(st.chunks))],
           returns |-> i # 0]

removeChunk(st, id) ==
  IF ~MapHas(st.index, id) THEN [st |-> st, returns |-> FALSE]
  ELSE LET i == FindIndex(st.chunks, id)
           cleared == [st EXCEPT !.index = MapDelete(st.index, id),
                                 !.vectorCache = MapDelete(st.vectorCache, id)]
       IN IF i # 0
          THEN [st |-> [cleared EXCEPT !.chunks =
                          SubSeq(st.chunks, 1, i - 1) \o
                          SubSeq(st.chunks, i + 1, Len(st.chunks))],
                returns |-> TRUE]
          ELSE [st |-> cleared, returns |-> FALSE]

\* clear that empties nothing
clearNothing(st) == st

clear(st) == EmptyStore

\* averageVectorDimension is counted in units of 1/Scale
getStats(st) ==
  LET totalChunks == Len(st.chunks)
      totalDimension ==
        SumTo([i \in 1..totalChunks |-> st.chunks[i].vector.dimension], totalChunks)
  IN IF \E i \in 1..totalChunks : ~Has(st.chunks[i], "vector")
     THEN [error |-> TypeError]
     ELSE [error |-> NoError,
           totalChunks |-> totalChunks,
           totalVectors |-> Cardinality(DOMAIN st.vectorCache),
           averageVectorDimension |->
             IF totalChunks > 0 THEN (totalDimension * Scale) \div totalChunks ELSE 0,
           memoryUsage |-> totalChunks * 1024]

\* source.chunkIndex || 0
OrZero(obj, f) == IF Has(obj, f) THEN obj[f] ELSE 0

\* the Chunk of a document, its metadata left behind
ChunkOfDocumentWithoutMetadata(doc) ==
  LET source == doc._source
  IN (IF Has(doc, "_id") THEN "id" :> doc._id ELSE EmptyMap) @@
     (IF Has(source, "content") THEN "content" :> source.content ELSE EmptyMap) @@
     [vector |-> [values |-> source.vector, dimension |-> Len(source.vector)],
      metadata |-> EmptyMap,
      chunkIndex |-> OrZero(source, "chunkIndex"),
      startPosition |-> OrZero(source, "startPosition"),
      endPosition |-> OrZero(source, "endPosition")]

\* the Chunk importFromElasticsearch builds from one document
ChunkOfDocument(doc) ==
  LET source == doc._source
  IN (IF Has(doc, "_id") THEN "id" :> doc._id ELSE EmptyMap) @@
     (IF Has(source, "content") THEN "content" :> source.content ELSE EmptyMap) @@
     [vector |-> [values |-> source.vector, dimension |-> Len(source.vector)],
      metadata |-> IF Has(source, "metadata") THEN source.metadata ELSE EmptyMap,
      chunkIndex |-> OrZero(source, "chunkIndex"),
      startPosition |-> OrZero(source, "startPosition"),
      endPosition |-> OrZero(source, "endPosition")]

importFromElasticsearch(st, documents, options) ==
  \* source.vector.length throws on a document without a vector, before any insertion
  IF \E i \in 1..Len(documents) : ~Has(documents[i]._source, "vector")
  THEN [st |-> st, error |-> TypeError]
  ELSE addChunks(st, [i \in 1..Len(documents) |-> ChunkOfDocument(documents[i])],
                 options)

\* JSON.parse(JSON.stringify({config, chunks, timestamp})): a field that is
\* undefined is left out, which is how the records hold it already; the
\* timestamp is not modelled
Snapshot(cfg, st) == [config |-> cfg, chunks |-> st.chunks]

IOError == "ENOENT"

\* loadFromFile on the file's parsed content, <<>> when there is no file:
\* the store and the configuration it leaves, and the Error
loadFromFile(st, cfg, content, options) ==
  IF content = <<>> THEN [st |-> st, config |-> cfg, error |-> IOError]
  ELSE LET data == content[1]
           r == addChunks(clear(st), data.chunks, options)
       IN [st |-> r.st, config |-> data.config @@ cfg, error |-> r.error]

(***************************************************************************)
(* The store's state and its operations as actions.  out is what the last  *)
(* call was given and what it returned or threw.                           *)
(***************************************************************************)
Store == [chunks |-> chunks, index |-> index, vectorCache |-> vectorCache]

SetStore(st) ==
  /\ chunks' = st.chunks
  /\ index' = st.index
  /\ vectorCache' = st.vectorCache

DefaultConfig ==
  [similarityMetric |-> "cosine", indexType |-> "brute-force",
   maxResults |-> DefaultMaxResults, threshold |-> 0]

AddChunk(chunk, options, max) ==
  /\ Len(chunks) < max
  /\ LET r == addChunk(Store, chunk, options)
     IN /\ SetStore(r.st)
        /\ out' = [op |-> "addChunk", chunk |-> chunk, options |-> options,
                   error |-> r.error]
  /\ UNCHANGED <<config, file, chunkerVars, componentVars>>

AddChunks(cs, options, max) ==
  /\ Len(chunks) + Len(cs) <= max
  /\ LET r == addChunks(Store, cs, options)
     IN /\ SetStore(r.st)
        /\ out' = [op |-> "addChunks", batch |-> cs, options |-> options,
                   error |-> r.error]
  /\ UNCHANGED <<config, file, chunkerVars, componentVars>>

ImportFromElasticsearch(documents, options, max) ==
  /\ Len(chunks) + Len(documents) <= max
  /\ LET r == importFromElasticsearch(Store, documents, options)
     IN /\ SetStore(r.st)
        /\ out' = [op |-> "importFromElasticsearch", documents |-> documents,
                   options |-> options, error |-> r.error]
  /\ UNCHANGED <<config, file, chunkerVars, componentVars>>

RemoveChunk(id) ==
  /\ LET r == removeChunk(Store, id)
     IN /\ SetStore(r.st)
        /\ out' = [op |-> "removeChunk", id |-> id, returns |-> r.returns]
  /\ UNCHANGED <<config, file, chunkerVars, componentVars>>

Clear ==
  /\ SetStore(clear(Store))
  /\ out' = [op |-> "clear"]
  /\ UNCHANGED <<config, file, chunkerVars, componentVars>>

Search(queryVector, topK, options) ==
  /\ out' = [op |-> "search", query |-> queryVector, topK |-> topK,
             options |-> options] @@
            search(Store, config, queryVector, topK, options)
  /\ UNCHANGED <<chunks, index, vectorCache, config, file, chunkerVars, componentVars>>

SaveToFile ==
  /\ file' = <<Snapshot(config, Store)>>
  /\ out' = [op |-> "saveToFile"]
  /\ UNCHANGED <<chunks, index, vectorCache, config, chunkerVars, componentVars>>

\* loadFromFile of a file with the given parsed content
LoadFrom(content, options) ==
  /\ LET r == loadFromFile(Store, config, content, options)
     IN /\ SetStore(r.st)
        /\ config' = r.config
        /\ out' = [op |-> "loadFromFile", content |-> content, options |-> options,
                   held |-> Len(chunks), error |-> r.error]
  /\ UNCHANGED <<file, chunkerVars, componentVars>>

LoadFromFile(options) == LoadFrom(file, options)

(***************************************************************************)
(* Inputs.                                                                 *)
(***************************************************************************)
One == Scale

Vec(values) == [values |-> values, dimension |-> Len(values)]

MkChunk(id, content, vector) ==
  [id |-> id, content |-> content, vector |-> vector, metadata |-> EmptyMap,
   chunkIndex |-> 0, startPosition |-> 0, endPosition |-> Len(content)]

Without(obj, f) == [k \in DOMAIN obj \ {f} |-> obj[k]]

ChunkA == MkChunk("a", <<"x">>, Vec(<<One, 0>>))
ChunkB == MkChunk("b", <<"y", SP>>, Vec(<<One, One>>))
\* the id of ChunkA again
ChunkA2 == MkChunk("a", <<"z">>, Vec(<<0, 2 * One>>))

ValidChunks == {ChunkA, ChunkB, ChunkA2}

InvalidChunks ==
  { MkChunk("", <<"x">>, Vec(<<One, 0>>)),
    Without(ChunkA, "id"),
    MkChunk("c", <<>>, Vec(<<One, 0>>)),
    MkChunk("c", <<SP, NL>>, Vec(<<One, 0>>)),
    Without(MkChunk("c", <<"x">>, Vec(<<One, 0>>)), "vector"),
    MkChunk("c", <<"x">>, [values |-> <<One>>, dimension |-> 2]) }

StoreChunks == ValidChunks \cup InvalidChunks

WhitespaceChunk == MkChunk("c", <<SP, NL>>, Vec(<<One, 0>>))
NoVectorChunk == Without(MkChunk("c", <<"x">>, Vec(<<One, 0>>)), "vector")
MismatchChunk == MkChunk("c", <<"x">>, [values |-> <<One>>, dimension |-> 2])

NoValidate == [DefaultOptions EXCEPT !.validateInput = FALSE]
Normalizing == [DefaultOptions EXCEPT !.normalizeVectors = TRUE]
OneByOne == [DefaultOptions EXCEPT !.batchSize = 1]

\* the options other than the default ones, and the chunks tried with them
OtherOptions ==
  {NoValidate, Normalizing, [NoValidate EXCEPT !.normalizeVectors = TRUE]}
OptionChunks == {ChunkB, WhitespaceChunk, NoVectorChunk, MismatchChunk}

Batches ==
  { <<ChunkB, ChunkA2>>, <<ChunkB, WhitespaceChunk>>, <<WhitespaceChunk, ChunkB>>,
    <<NoVectorChunk, ChunkA2>> }
BatchOptions == {DefaultOptions, OneByOne, NoValidate}

DocumentOf(chunk) ==
  [_index |-> "idx", _type |-> "_doc", _id |-> chunk.id,
   _source |-> [content |-> chunk.content, vector |-> chunk.vector.values,
                metadata |-> chunk.metadata, chunkIndex |-> chunk.chunkIndex,
                startPosition |-> chunk.startPosition,
                endPosition |-> chunk.endPosition]]

DocB == [_id |-> "b", _source |-> [content |-> <<"y">>, vector |-> <<One, One>>]]
DocBlank == [_id |-> "c", _source |-> [content |-> <<SP>>, vector |-> <<>>]]
DocNoVector == [_id |-> "c", _source |-> [content |-> <<"x">>]]

DocumentBatches ==
  { <<DocumentOf(ChunkA), DocB>>, <<DocB, DocBlank>>, <<DocumentOf(ChunkA), DocNoVector>> }
ImportOptions == {DefaultOptions, NoValidate}

\* what a snapshot file may hold, and no file
FileContents ==
  {<<>>} \cup
  { <<[config |-> DefaultConfig, chunks |-> cs]>> :
      cs \in {<<>>, <<ChunkB, ChunkA2>>, <<ChunkB, WhitespaceChunk>>} }
LoadOptions == {DefaultOptions, NoValidate, Normalizing}

StoreIds == {"a", "b", "c", "", Undefined}

(***************************************************************************)
(* SpecStore: a store under every mutating operation.                      *)
(***************************************************************************)
ChunkerIdle ==
  /\ tcConfig = [strategy |-> "none"]
  /\ tcText = <<>>
  /\ tcOut = [op |-> "init"]

ParallelIdle ==
  /\ numWorkers = 0
  /\ workers = <<>>
  /\ call = [state |-> "idle"]

LazyIdle ==
  /\ isIndexed = FALSE
  /\ chunkPositions = <<>>
  /\ processedChunks = EmptyMap
  /\ now = 0
  /\ proxies = {}
  /\ lzHistory = [materialized |-> EmptyMap, firstSeen |-> EmptyMap]
  /\ lzOut = [op |-> "init", observed |-> EmptyMap]

StreamIdle ==
  /\ scInput = <<>>
  /\ buffer = <<>>
  /\ scChunkIndex = 0
  /\ scPushed = <<>>
  /\ stream = [state |-> "idle", op |-> "init"]

ComponentsIdle == ParallelIdle /\ LazyIdle /\ StreamIdle

InitStore ==
  /\ chunks = <<>>
  /\ index = EmptyMap
  /\ vectorCache = EmptyMap
  /\ config = DefaultConfig
  /\ file = <<>>
  /\ out = [op |-> "init"]
  /\ ChunkerIdle
  /\ ComponentsIdle

NextStore ==
  \/ \E c \in StoreChunks : AddChunk(c, DefaultOptions, MaxChunks)
  \/ \E c \in OptionChunks, o \in OtherOptions : AddChunk(c, o, MaxChunks)
  \/ \E cs \in Batches, o \in BatchOptions : AddChunks(cs, o, MaxChunks)
  \/ \E ds \in DocumentBatches, o \in ImportOptions :
       ImportFromElasticsearch(ds, o, MaxChunks)
  \/ \E content \in FileContents, o \in LoadOptions : LoadFrom(content, o)
  \/ \E id \in StoreIds : RemoveChunk(id)
  \/ Clear

SpecStore == InitStore /\ [][NextStore]_vars

(***************************************************************************)
(* What the claims call a valid chunk, stated apart from validateChunk.    *)
(***************************************************************************)
WellFormed(chunk) ==
  /\ Has(chunk, "id") /\ chunk.id # ""
  /\ Has(chunk, "content") /\ Trim(chunk.content) # <<>>
  /\ Has(chunk, "vector") /\ Len(chunk.vector.values) = chunk.vector.dimension

AllStoredWellFormed == \A i \in 1..Len(chunks) : WellFormed(chunks[i])

\* C1: addChunk with default options on a chunk with an empty or missing id,
\* empty or whitespace-only content, no vector, or values.length # dimension
\* throws a validation error and leaves chunks, index, the vector cache and
\* getStats() as they were.
C1_InvalidChunkRejected ==
  [][ ( /\ out'.op = "addChunk"
        /\ out'.options = DefaultOptions
        /\ ~WellFormed(out'.chunk) )
      => ( /\ out'.error \in ValidationErrors
           /\ chunks' = chunks
           /\ index' = index
           /\ vectorCache' = vectorCache
           /\ getStats(Store)' = getStats(Store) ) ]_vars

C1_Witness ==
  /\ out.op = "addChunk"
  /\ out.options = DefaultOptions
  /\ ~WellFormed(out.chunk)
  /\ out.chunk.content = <<SP, NL>>
  /\ out.error = EmptyContentError
  /\ Len(chunks) = 1

\* C2 as claimed: in every reachable state every stored chunk has a non-empty
\* id, non-empty content and values.length = dimension, whatever options the
\* operations were called with.
C2_AlwaysWellFormed == AllStoredWellFormed

\* C2 amended: a store whose chunks are all well-formed keeps them so under
\* every operation that is not called with validateInput: false; the store
\* starts empty.
C2_WellFormedUnlessValidationOff ==
  /\ AllStoredWellFormed
  /\ [][ (AllStoredWellFormed /\ ~AllStoredWellFormed')
         => (Has(out', "options") /\ ~out'.options.validateInput) ]_vars

C2_Witness ==
  /\ out.op = "importFromElasticsearch"
  /\ out.options.validateInput
  /\ out.error = EmptyContentError
  /\ Len(chunks) = 1
  /\ AllStoredWellFormed

(***************************************************************************)
(* SpecSearch: stores of every content, searched.                          *)
(***************************************************************************)
SearchChunkC == MkChunk("c", <<"z">>, Vec(<<0, 2 * One>>))

SearchChunks == {ChunkA, ChunkB, SearchChunkC}
\* stored without validation: a score of NaN, a TypeError
UnvalidatedChunks == {MismatchChunk, NoVectorChunk}

SearchConfigs ==
  { [similarityMetric |-> "cosine", indexType |-> "brute-force",
     maxResults |-> 2, threshold |-> 30],
    [similarityMetric |-> "euclidean", indexType |-> "brute-force",
     maxResults |-> DefaultMaxResults, threshold |-> 40],
    [similarityMetric |-> "manhattan", indexType |-> "brute-force",
     maxResults |-> 2, threshold |-> 0],
    [similarityMetric |-> "dot", indexType |-> "brute-force",
     maxResults |-> DefaultMaxResults, threshold |-> 0] }

Query1 == Vec(<<One, 0>>)
Query2 == Vec(<<One, 3 * One>>)
Queries == {<<Query1, DefaultOptions>>, <<Query2, DefaultOptions>>,
            <<Query2, Normalizing>>}

\* topK left out, 0, 1, 2
TopKs == {<<>>, <<0>>, <<1>>, <<2>>}

InitSearch ==
  /\ chunks = <<>>
  /\ index = EmptyMap
  /\ vectorCache = EmptyMap
  /\ config \in SearchConfigs
  /\ file = <<>>
  /\ out = [op |-> "init"]
  /\ ChunkerIdle
  /\ ComponentsIdle

NextSearch ==
  \/ \E c \in SearchChunks : AddChunk(c, DefaultOptions, MaxSearchChunks)
  \/ \E c \in UnvalidatedChunks : AddChunk(c, NoValidate, MaxSearchChunks)
  \/ \E q \in Queries, k \in TopKs : Search(q[1], k, q[2])

SpecSearch == InitSearch /\ [][NextSearch]_vars

\* the query the scores of the last search were computed against
ScoredQuery ==
  IF out.options.normalizeVectors THEN normalize(out.query) ELSE out.query

\* the score of the i-th stored chunk under the configured metric
ScoreOf(i) == calculateSimilarity(config, ScoredQuery, chunks[i].vector)

\* the stored chunks whose score is a number >= threshold
Qualifying ==
  {i \in 1..Len(chunks) : ScoreOf(i).kind = "num" /\ ScoreOf(i).value >= config.threshold}

Returned == out.op = "search" /\ out.error = NoError

\* C3: search(query, topK) returns exactly the min(topK, m) highest-scoring
\* of the m stored chunks whose score is >= threshold: every returned score is
\* >= threshold, every result is such a chunk with its score, and no chunk left
\* out has a score >= threshold that is greater than a returned score.
C3_TopKOfQualifying ==
  (Returned /\ out.topK # <<>>) =>
    /\ Len(out.results) = Min(out.topK[1], Cardinality(Qualifying))
    /\ \A j \in 1..Len(out.results) :
         /\ out.results[j].score >= config.threshold
         /\ \E i \in Qualifying :
              chunks[i] = out.results[j].chunk /\ ScoreOf(i).value = out.results[j].score
    /\ \A i \in Qualifying : \A j \in 1..Len(out.results) :
         ScoreOf(i).value > out.results[j].score =>
           \E l \in 1..Len(out.results) :
              out.results[l].chunk = chunks[i] /\ out.results[l].score = ScoreOf(i).value

\* the statement of C3 holds of every call that passes a topK >= 1
TopKOfQualifyingForPositiveK ==
  (Returned /\ out.topK # <<>> /\ out.topK # <<0>>) => C3_TopKOfQualifying

\* C4 as claimed: consecutive results have strictly decreasing scores.
C4_StrictlyDescending ==
  Returned =>
    \A j \in 1..(Len(out.results) - 1) :
       out.results[j].score > out.results[j + 1].score

\* C4 amended: the results are sorted descending by score, equal scores
\* allowed: r[i].score >= r[i+1].score for consecutive results.
C4_Descending ==
  Returned =>
    \A j \in 1..(Len(out.results) - 1) :
       out.results[j].score >= out.results[j + 1].score

\* the sort moved a chunk stored later in front of one stored earlier
C4_Witness ==
  /\ Returned
  /\ Len(out.results) = 2
  /\ out.results[1].score > out.results[2].score
  /\ Len(chunks) = 2
  /\ out.results[1].chunk = chunks[2]
  /\ out.results[2].chunk = chunks[1]

\* C5: for every topK >= 0 given to search, topK = 0 included, at most topK
\* results are returned.
C5_AtMostTopK ==
  (Returned /\ out.topK # <<>>) => Len(out.results) <= out.topK[1]

(***************************************************************************)
(* SpecSnapshot: a store saved to a file and a store loaded from it.  The  *)
(* file is written by saveToFile alone; the store that loads it is the     *)
(* store as later operations have left it.                                 *)
(***************************************************************************)
SnapshotChunks == {ChunkA, ChunkB}

InitSnapshot == InitStore

NextSnapshot ==
  \/ \E c \in SnapshotChunks : AddChunk(c, DefaultOptions, MaxSnapshotChunks)
  \/ AddChunk(ChunkB, Normalizing, MaxSnapshotChunks)
  \/ AddChunk(WhitespaceChunk, NoValidate, MaxSnapshotChunks)
  \/ \E id \in {"a"} : RemoveChunk(id)
  \/ Clear
  \/ SaveToFile
  \/ \E o \in LoadOptions : LoadFromFile(o)

SpecSnapshot == InitSnapshot /\ [][NextSnapshot]_vars

\* the chunk set of a chunk list: ids, content, vector values
ChunkSet(cs) ==
  { <<cs[i].id, cs[i].content, cs[i].vector.values>> : i \in 1..Len(cs) }

\* C6: a snapshot saved from a store of valid chunks and loaded (default
\* options) into a store, whatever it held, leaves that store with the chunk
\* set (ids, content, vector values) of the saved one and nothing else, in
\* the chunk list and in the id lookup.
C6_SnapshotRoundTrip ==
  ( /\ out.op = "loadFromFile"
    /\ out.options = DefaultOptions
    /\ file # <<>>
    /\ \A i \in 1..Len(file[1].chunks) : WellFormed(file[1].chunks[i]) )
  => ( /\ out.error = NoError
       /\ ChunkSet(chunks) = ChunkSet(file[1].chunks)
       /\ Len(chunks) = Len(file[1].chunks)
       /\ DOMAIN index = {file[1].chunks[i].id : i \in 1..Len(file[1].chunks)} )

\* a store holding two chunks loads a snapshot of two other chunks
C6_Witness ==
  /\ out.op = "loadFromFile"
  /\ out.options = DefaultOptions
  /\ out.held = 2
  /\ file # <<>>
  /\ file[1].chunks = <<[ChunkB EXCEPT !.vector = normalize(ChunkB.vector)], ChunkA>>
  /\ chunks = file[1].chunks

(***************************************************************************)
(* TextChunker: string helpers.                                            *)
(***************************************************************************)
DOT == "."

Whitespace == {SP, NL}
SentenceEndings == {DOT, "!", "?"}

\* the length of the longest prefix of s made of characters of S
RECURSIVE PrefixIn(_, _)
PrefixIn(s, S) ==
  IF s # <<>> /\ Head(s) \in S THEN 1 + PrefixIn(Tail(s), S) ELSE 0

\* the length of the longest prefix of s with no character of S
RECURSIVE PrefixNotIn(_, _)
PrefixNotIn(s, S) ==
  IF s # <<>> /\ Head(s) \notin S THEN 1 + PrefixNotIn(Tail(s), S) ELSE 0

Drop(s, n) == SubSeq(s, n + 1, Len(s))
Take(s, n) == SubSeq(s, 1, n)

\* s.split(sep) for a separator that is one or more characters of S: the
\* pieces between the separator runs, empty pieces included
RECURSIVE SplitRuns(_, _)
SplitRuns(s, S) ==
  LET n == PrefixNotIn(s, S)
      rest == Drop(s, n)
  IN IF rest = <<>> THEN <<s>>
     ELSE <<Take(s, n)>> \o SplitRuns(Drop(rest, PrefixIn(rest, S)), S)

\* s.match(sep): the separator runs, in order
RECURSIVE MatchRuns(_, _)
MatchRuns(s, S) ==
  LET rest == Drop(s, PrefixNotIn(s, S))
      m == PrefixIn(rest, S)
  IN IF rest = <<>> THEN <<>>
     ELSE <<Take(rest, m)>> \o MatchRuns(Drop(rest, m), S)

\* text.split(/\s+/)
SplitWords(text) == SplitRuns(text, Whitespace)

RECURSIVE Join(_, _)
\* parts.join(sep)
Join(parts, sep) ==
  IF parts = <<>> THEN <<>>
  ELSE IF Len(parts) = 1 THEN parts[1]
  ELSE parts[1] \o sep \o Join(Tail(parts), sep)

\* the length of the match of /\n\s*\n/ at the head of s, 0 if there is none:
\* a newline, then the whitespace run up to its last newline
ParagraphBreakLen(s) ==
  IF s = <<>> \/ Head(s) # NL THEN 0
  ELSE LET run == PrefixIn(Tail(s), Whitespace)
           newlines == {j \in 1..run : s[1 + j] = NL}
       IN IF newlines = {} THEN 0
          ELSE 1 + (CHOOSE j \in newlines : \A l \in newlines : l <= j)

\* text.split(/\n\s*\n/), piece being the part of the current piece already read
RECURSIVE SplitParagraphsFrom(_, _)
SplitParagraphsFrom(piece, s) ==
  IF s = <<>> THEN <<piece>>
  ELSE LET m == ParagraphBreakLen(s)
       IN IF m > 0 THEN <<piece>> \o SplitParagraphsFrom(<<>>, Drop(s, m))
          ELSE SplitParagraphsFrom(Append(piece, Head(s)), Tail(s))

SplitParagraphs(text) == SplitParagraphsFrom(<<>>, text)

\* array.filter(s => s.length > 0)
RECURSIVE NonEmpty(_)
NonEmpty(parts) ==
  IF parts = <<>> THEN <<>>
  ELSE IF Head(parts) = <<>> THEN NonEmpty(Tail(parts))
  ELSE <<Head(parts)>> \o NonEmpty(Tail(parts))

\* array.slice(-n)
LastN(parts, n) == SubSeq(parts, Max(1, Len(parts) - n + 1), Len(parts))

\* Math.ceil(a / b) for a >= 0, b > 0
CeilDiv(a, b) == (a + b - 1) \div b

(***************************************************************************)
(* TextChunker                                                             *)
(***************************************************************************)
\* createChunk numbering every chunk 0
createChunkIndexZero(content, chunkIndex) ==
  [content |-> content, chunkIndex |-> 0,
   startPosition |-> 0, endPosition |-> Len(content)]

\* const id = `chunk_${Date.now()}_${chunkIndex}`, at the time t
chunkId(t, chunkIndex) == <<"chunk", t, chunkIndex>>

\* the vector and the metadata of the chunk are not modelled; its id is kept
\* beside the chunk where the time of its creation matters
createChunk(content, chunkIndex) ==
  [content |-> content, chunkIndex |-> chunkIndex,
   startPosition |-> 0, endPosition |-> Len(content)]

\* the overlap taken as a single word
overlapOneWord(overlap) == Min(1, overlap)

\* Calculate how many words to keep for overlap
overlapWords(overlap) == Max(2, CeilDiv(overlap, 3))

\* the loop of fixedSizeChunking from the i-th word on, counted from 1
RECURSIVE FixedLoop(_, _, _, _, _, _)
FixedLoop(cfg, words, i, currentChunk, chunkIndex, emitted) ==
  IF i > Len(words) THEN emitted
  ELSE LET pushed == Append(currentChunk, words[i])
           isLast == i = Len(words)
           chunkText == Trim(Join(pushed, <<SP>>))
           keep == Len(chunkText) >= cfg.minChunkSize
       IN IF Len(Join(pushed, <<SP>>)) >= cfg.chunkSize \/ isLast
          THEN FixedLoop(cfg, words, i + 1,
                 IF cfg.overlap > 0 /\ ~isLast
                 THEN LastN(pushed, overlapWords(cfg.overlap)) ELSE <<>>,
                 IF keep THEN chunkIndex + 1 ELSE chunkIndex,
                 IF keep THEN Append(emitted, createChunk(chunkText, chunkIndex))
                 ELSE emitted)
          ELSE FixedLoop(cfg, words, i + 1, pushed, chunkIndex, emitted)

fixedSizeChunking(cfg, text) == FixedLoop(cfg, SplitWords(text), 1, <<>>, 0, <<>>)

splitIntoSentences(text) ==
  LET sentences ==
        NonEmpty([i \in DOMAIN SplitRuns(text, SentenceEndings) |->
                    Trim(SplitRuns(text, SentenceEndings)[i])])
      endings == MatchRuns(text, SentenceEndings)
  IN [i \in 1..Len(sentences) |->
        sentences[i] \o (IF i <= Len(endings) THEN endings[i] ELSE <<>>)]

RECURSIVE SemanticLoop(_, _, _, _, _)
SemanticLoop(cfg, sentences, currentChunk, chunkIndex, emitted) ==
  IF sentences = <<>>
  THEN \* Add the last chunk
       IF currentChunk # <<>> /\ Len(currentChunk) >= cfg.minChunkSize
       THEN Append(emitted, createChunk(Trim(currentChunk), chunkIndex))
       ELSE emitted
  ELSE LET sentence == Head(sentences)
           potentialChunk ==
             currentChunk \o (IF currentChunk # <<>> THEN <<SP>> ELSE <<>>) \o sentence
           keep == Len(currentChunk) >= cfg.minChunkSize
       IN IF Len(potentialChunk) > cfg.chunkSize /\ currentChunk # <<>>
          THEN SemanticLoop(cfg, Tail(sentences), sentence,
                 IF keep THEN chunkIndex + 1 ELSE chunkIndex,
                 IF keep THEN Append(emitted, createChunk(Trim(currentChunk), chunkIndex))
                 ELSE emitted)
          ELSE SemanticLoop(cfg, Tail(sentences), potentialChunk, chunkIndex, emitted)

semanticChunking(cfg, text) ==
  SemanticLoop(cfg, splitIntoSentences(text), <<>>, 0, <<>>)

\* the loop of slidingWindowChunking from the cursor i on, for a step > 0
RECURSIVE SlidingLoop(_, _, _, _, _)
SlidingLoop(cfg, text, i, chunkIndex, emitted) ==
  IF i >= Len(text) THEN emitted
  ELSE LET chunkText == Trim(Slice(text, i, i + cfg.chunkSize))
           keep == Len(chunkText) >= cfg.minChunkSize
       IN SlidingLoop(cfg, text, i + (cfg.chunkSize - cfg.overlap),
            IF keep THEN chunkIndex + 1 ELSE chunkIndex,
            IF keep THEN Append(emitted, createChunk(chunkText, chunkIndex))
            ELSE emitted)

\* slidingWindowChunking that keeps every window
slidingWindowKeepAll(cfg, text) ==
  SlidingLoop([cfg EXCEPT !.minChunkSize = 0], text, 0, 0, <<>>)

\* slidingWindowChunking with its cursor starting one step into the text
slidingWindowFromSecond(cfg, text) ==
  SlidingLoop(cfg, text, cfg.chunkSize - cfg.overlap, 0, <<>>)

slidingWindowChunking(cfg, text) == SlidingLoop(cfg, text, 0, 0, <<>>)

RECURSIVE AdaptiveLoop(_, _, _, _, _)
AdaptiveLoop(cfg, paragraphs, currentChunk, chunkIndex, emitted) ==
  IF paragraphs = <<>>
  THEN \* Add the last chunk
       IF currentChunk # <<>> /\ Len(currentChunk) >= cfg.minChunkSize
       THEN Append(emitted, createChunk(currentChunk, chunkIndex))
       ELSE emitted
  ELSE LET trimmedParagraph == Trim(Head(paragraphs))
           keep == currentChunk # <<>> /\ Len(currentChunk) >= cfg.minChunkSize
       IN IF trimmedParagraph = <<>>
          THEN AdaptiveLoop(cfg, Tail(paragraphs), currentChunk, chunkIndex, emitted)
          ELSE IF Len(currentChunk) + Len(trimmedParagraph) <= cfg.chunkSize
          THEN AdaptiveLoop(cfg, Tail(paragraphs),
                 currentChunk \o (IF currentChunk # <<>> THEN <<NL, NL>> ELSE <<>>)
                              \o trimmedParagraph,
                 chunkIndex, emitted)
          ELSE AdaptiveLoop(cfg, Tail(paragraphs), trimmedParagraph,
                 IF keep THEN chunkIndex + 1 ELSE chunkIndex,
                 IF keep THEN Append(emitted, createChunk(currentChunk, chunkIndex))
                 ELSE emitted)

adaptiveChunking(cfg, text) ==
  AdaptiveLoop(cfg, SplitParagraphs(text), <<>>, 0, <<>>)

\* the short-document path with the text left untrimmed
shortDocumentUntrimmed(cfg, text) ==
  IF Len(text) >= cfg.minChunkSize THEN <<createChunk(text, 0)>> ELSE <<>>

\* the short-document path with minChunkSize not looked at
shortDocumentAnyLength(cfg, text) == <<createChunk(Trim(text), 0)>>

\* Handle text shorter than chunk size
shortDocument(cfg, text) ==
  IF Len(text) >= cfg.minChunkSize THEN <<createChunk(Trim(text), 0)>> ELSE <<>>

\* chunkText: the chunks returned, and whether the call returns at all (the
\* sliding loop does not end when its step is not positive)
chunkText(cfg, text) ==
  IF text = <<>> \/ Trim(text) = <<>> THEN [returns |-> TRUE, chunks |-> <<>>]
  ELSE IF Len(text) <= cfg.chunkSize
  THEN [returns |-> TRUE, chunks |-> shortDocument(cfg, text)]
  ELSE CASE cfg.strategy = "fixed" ->
              [returns |-> TRUE, chunks |-> fixedSizeChunking(cfg, text)]
         [] cfg.strategy = "semantic" ->
              [returns |-> TRUE, chunks |-> semanticChunking(cfg, text)]
         [] cfg.strategy = "sliding" ->
              IF cfg.chunkSize - cfg.overlap > 0
              THEN [returns |-> TRUE, chunks |-> slidingWindowChunking(cfg, text)]
              ELSE [returns |-> FALSE, chunks |-> <<>>]
         [] cfg.strategy = "adaptive" ->
              [returns |-> TRUE, chunks |-> adaptiveChunking(cfg, text)]
         [] OTHER -> [returns |-> TRUE, chunks |-> fixedSizeChunking(cfg, text)]

(***************************************************************************)
(* SpecChunker: a TextChunker constructed with a configuration, and one    *)
(* text given to chunkText.                                                *)
(***************************************************************************)
Alphabet == {"a", SP, DOT, NL}

RECURSIVE TextsOfLen(_)
TextsOfLen(n) ==
  IF n = 0 THEN {<<>>}
  ELSE {Append(t, c) : t \in TextsOfLen(n - 1), c \in Alphabet}

Texts == UNION {TextsOfLen(n) : n \in 0..MaxTextLen}

Strategies == {"fixed", "semantic", "sliding", "adaptive"}

\* chunkSize, overlap, minChunkSize
Sizes == {<<2, 0, 1>>, <<2, 1, 2>>, <<3, 0, 1>>, <<3, 0, 2>>, <<3, 1, 2>>, <<2, 1, 4>>}

ChunkerConfigs ==
  { [chunkSize |-> z[1], overlap |-> z[2], strategy |-> s,
     preserveParagraphs |-> TRUE, minChunkSize |-> z[3], maxChunkSize |-> 1024] :
    z \in Sizes, s \in Strategies }

InitChunker ==
  /\ chunks = <<>>
  /\ index = EmptyMap
  /\ vectorCache = EmptyMap
  /\ config = DefaultConfig
  /\ file = <<>>
  /\ out = [op |-> "init"]
  /\ tcConfig \in ChunkerConfigs
  /\ tcText \in Texts
  /\ tcOut = [op |-> "init"]
  /\ ComponentsIdle

ChunkText ==
  /\ tcOut' = [op |-> "chunkText"] @@ chunkText(tcConfig, tcText)
  /\ UNCHANGED <<tcConfig, tcText, storeVars, componentVars>>

NextChunker == ChunkText

SpecChunker == InitChunker /\ [][NextChunker]_vars

Chunked == tcOut.op = "chunkText" /\ tcOut.returns

\* C7 as claimed: for every text T with minChunkSize <= len(T) <= chunkSize
\* and every strategy, chunkText returns exactly one chunk, of content trim(T).
C7_ShortTextOneChunk ==
  ( /\ Chunked
    /\ tcConfig.minChunkSize <= Len(tcText)
    /\ Len(tcText) <= tcConfig.chunkSize )
  => ( /\ Len(tcOut.chunks) = 1
       /\ tcOut.chunks[1].content = Trim(tcText) )

\* C7 amended: the same for every such text T that is not whitespace only.
C7_ShortTextOneChunkUnlessBlank ==
  ( /\ Chunked
    /\ tcConfig.minChunkSize <= Len(tcText)
    /\ Len(tcText) <= tcConfig.chunkSize
    /\ \E i \in 1..Len(tcText) : ~IsSpace(tcText[i]) )
  => ( /\ Len(tcOut.chunks) = 1
       /\ tcOut.chunks[1].content = Trim(tcText) )

C7_Witness ==
  /\ Chunked
  /\ tcConfig.chunkSize = 3
  /\ tcConfig.minChunkSize = 2
  /\ tcText = <<SP, "a", NL>>
  /\ Len(tcOut.chunks) = 1
  /\ tcOut.chunks[1].content = <<"a">>

\* C8: for every text T with len(T) < minChunkSize, the empty text included,
\* and every strategy, chunkText returns the empty sequence.
C8_BelowMinimumNoChunk ==
  (Chunked /\ Len(tcText) < tcConfig.minChunkSize) => tcOut.chunks = <<>>

\* a text longer than chunkSize and shorter than minChunkSize went through a strategy
C8_Witness ==
  /\ Chunked
  /\ tcConfig.strategy = "semantic"
  /\ tcConfig.chunkSize = 2
  /\ tcConfig.minChunkSize = 4
  /\ tcText = <<"a", DOT, "a">>
  /\ tcOut.chunks = <<>>

C10_FixedChunkWithinChunkSize ==
  (Chunked /\ tcConfig.strategy = "fixed" /\ tcConfig.overlap = 0) =>
    \A k \in 1..Len(tcOut.chunks) :
       Len(tcOut.chunks[k].content) <= tcConfig.chunkSize

\* C11: in the sequence returned by one chunkText run, for every strategy,
\* the chunk at position k (counted from 0) has chunkIndex = k, also when
\* candidates below minChunkSize were dropped in between.
C11_ChunkIndexIsPosition ==
  Chunked =>
    \A k \in 1..Len(tcOut.chunks) : tcOut.chunks[k].chunkIndex = k - 1

\* a sliding run that dropped two windows between the two it kept
C11_Witness ==
  /\ Chunked
  /\ tcConfig.strategy = "sliding"
  /\ tcConfig.chunkSize = 2
  /\ tcConfig.overlap = 1
  /\ tcConfig.minChunkSize = 2
  /\ tcText = <<"a", "a", SP, "a", "a">>
  /\ Len(tcOut.chunks) = 2
  /\ tcOut.chunks[2].chunkIndex = 1

\* the cursors of the windows slidingWindowChunking keeps, in order
RECURSIVE KeptWindowCursors(_, _, _)
KeptWindowCursors(cfg, text, i) ==
  IF i >= Len(text) THEN <<>>
  ELSE (IF Len(Trim(Slice(text, i, i + cfg.chunkSize))) >= cfg.minChunkSize
        THEN <<i>> ELSE <<>>)
       \o KeptWindowCursors(cfg, text, i + (cfg.chunkSize - cfg.overlap))

\* C12: for every chunk c returned by chunkText(T), 0 <= c.startPosition <
\* c.endPosition <= len(T), and in a sliding run the chunk of the k-th kept
\* window has startPosition at that window's cursor.
C12_PositionsAreOffsets ==
  Chunked =>
    /\ \A k \in 1..Len(tcOut.chunks) :
         /\ 0 <= tcOut.chunks[k].startPosition
         /\ tcOut.chunks[k].startPosition < tcOut.chunks[k].endPosition
         /\ tcOut.chunks[k].endPosition <= Len(tcText)
    /\ (tcConfig.strategy = "sliding" /\ Len(tcText) > tcConfig.chunkSize) =>
         \A k \in 1..Len(tcOut.chunks) :
            tcOut.chunks[k].startPosition =
              KeptWindowCursors(tcConfig, tcText, 0)[k]

(***************************************************************************)
(* ParallelChunker.  tcConfig is the configuration of the chunker and of   *)
(* the TextChunker it holds, tcText the text given to chunkTextParallel.   *)
(* A worker is running until its one event arrives: its message (the       *)
(* chunks of its segment, or the empty list its catch block posts when the *)
(* segmentation throws), an error event, or an exit with a code other than *)
(* 0.  The handler of an event settles the worker's promise, and the       *)
(* reactions of Promise.all and of the await run before any other event.   *)
(***************************************************************************)
MaxParallelTextLen == 5
MaxClock == 1

\* text.lastIndexOf(ch, from): the last index <= from holding ch, -1 if none
LastIndexOf(text, ch, from) ==
  LET at == {j \in 0..Min(from, Len(text) - 1) : text[j + 1] = ch}
  IN IF at = {} THEN -1 ELSE CHOOSE j \in at : \A l \in at : l <= j

\* the loop of splitTextForWorkers from worker i on: start and actualEnd of
\* each slice
RECURSIVE SplitSpans(_, _, _)
SplitSpans(text, n, i) ==
  IF i >= n THEN <<>>
  ELSE LET chunkSize == CeilDiv(Len(text), n)
           start == i * chunkSize
           end == IF i = n - 1 THEN Len(text) ELSE start + chunkSize
           back == LastIndexOf(text, SP, end)
           actualEnd == IF end < Len(text) /\ text[end + 1] # SP
                        THEN (IF back <= start THEN end ELSE back)
                        ELSE end
       IN <<[start |-> start, end |-> actualEnd]>> \o SplitSpans(text, n, i + 1)

\* chunks.push(text.slice(start, actualEnd)): the slices before the filter
SplitLoop(text, n, i) ==
  [k \in DOMAIN SplitSpans(text, n, i) |->
     Slice(text, SplitSpans(text, n, i)[k].start, SplitSpans(text, n, i)[k].end)]

\* array.filter(chunk => chunk.trim().length > 0)
RECURSIVE NonBlank(_)
NonBlank(parts) ==
  IF parts = <<>> THEN <<>>
  ELSE IF Trim(Head(parts)) = <<>> THEN NonBlank(Tail(parts))
  ELSE <<Head(parts)>> \o NonBlank(Tail(parts))

splitTextForWorkers(text, n) == NonBlank(SplitLoop(text, n, 0))

\* the two loops of mergeChunkResults: chunkIndex becomes the global counter
RECURSIVE MergeLoop(_, _)
MergeLoop(workerResults, globalChunkIndex) ==
  IF workerResults = <<>> THEN <<>>
  ELSE IF Head(workerResults) = <<>>
  THEN MergeLoop(Tail(workerResults), globalChunkIndex)
  ELSE <<[Head(Head(workerResults)) EXCEPT !.chunkIndex = globalChunkIndex]>>
       \o MergeLoop(<<Tail(Head(workerResults))>> \o Tail(workerResults),
                    globalChunkIndex + 1)

\* allChunks.sort((a, b) => a.chunkIndex - b.chunkIndex), a stable sort
RECURSIVE SortByChunkIndex(_)
SortByChunkIndex(cs) ==
  IF cs = <<>> THEN <<>>
  ELSE LET sorted == SortByChunkIndex(SubSeq(cs, 1, Len(cs) - 1))
           c == cs[Len(cs)]
           before == {j \in 1..Len(sorted) : sorted[j].chunkIndex <= c.chunkIndex}
           n == IF before = {} THEN 0
                ELSE CHOOSE j \in before : \A l \in before : l <= j
       IN SubSeq(sorted, 1, n) \o <<c>> \o SubSeq(sorted, n + 1, Len(sorted))

\* mergeChunkResults without the renumbering
mergeKeepingIndices(workerResults) ==
  LET RECURSIVE Flat(_)
      Flat(rs) == IF rs = <<>> THEN <<>> ELSE Head(rs) \o Flat(Tail(rs))
  IN SortByChunkIndex(Flat(workerResults))

mergeChunkResults(workerResults) ==
  SortByChunkIndex(MergeLoop(workerResults, 0))

WorkerExitError == "Worker stopped with exit code 1"
WorkerError == "worker error"

Resolved(w) == w.status \in {"posted", "threw"}
Rejected(w) == w.status \in {"errored", "exited"}

\* the promise of chunkTextParallel after worker i's promise settled as w:
\* Promise.all rejects with the first rejection and resolves once every
\* promise has resolved, and then the results are merged
Settle(i, w) ==
  LET ws == [workers EXCEPT ![i] = w]
      order == Append(call.order, i)
  IN /\ workers' = ws
     /\ call' =
          IF call.state # "pending" THEN [call EXCEPT !.order = order]
          ELSE IF Rejected(w)
          THEN [call EXCEPT !.state = "rejected", !.error = w.value, !.order = order]
          ELSE IF \A j \in 1..Len(ws) : Resolved(ws[j])
          THEN [call EXCEPT !.state = "resolved", !.order = order,
                  !.result = mergeChunkResults([j \in 1..Len(ws) |-> ws[j].value])]
          ELSE [call EXCEPT !.order = order]
     /\ UNCHANGED <<numWorkers, tcConfig, tcText, tcOut, storeVars, lazyVars, streamVars>>

\* chunkTextParallel up to its await
ChunkTextParallel(text) ==
  /\ call.state = "idle"
  /\ tcText' = text
  /\ IF text = <<>> \/ Trim(text) = <<>>
     THEN /\ call' = [state |-> "resolved", result |-> <<>>, error |-> NoError,
                      segments |-> <<>>, order |-> <<>>]
          /\ workers' = <<>>
     ELSE IF Len(text) < tcConfig.chunkSize * 2
     THEN /\ chunkText(tcConfig, text).returns
          /\ call' = [state |-> "resolved", result |-> chunkText(tcConfig, text).chunks,
                      error |-> NoError, segments |-> <<>>, order |-> <<>>]
          /\ workers' = <<>>
     ELSE LET textChunks == splitTextForWorkers(text, numWorkers)
          IN /\ call' = [state |-> "pending", result |-> <<>>, error |-> NoError,
                         segments |-> textChunks, order |-> <<>>]
             /\ workers' = [i \in 1..Len(textChunks) |->
                              [status |-> "running", value |-> <<>>, ids |-> <<>>]]
  /\ UNCHANGED <<numWorkers, tcConfig, tcOut, storeVars, lazyVars, streamVars>>

\* the values Date.now() may return to n successive calls of createChunk
CreationTimes(n) ==
  {ts \in [1..n -> 0..MaxClock] : \A k \in 1..(n - 1) : ts[k] <= ts[k + 1]}

\* the worker posts the chunks of its segment: worker.on('message').  ids[k]
\* is the id createChunk gave the k-th chunk, in the worker's own numbering
\* and at the time the worker's clock showed.
WorkerMessage(i) ==
  /\ i \in 1..Len(workers)
  /\ workers[i].status = "running"
  /\ chunkText(tcConfig, call.segments[i]).returns
  /\ LET posted == chunkText(tcConfig, call.segments[i]).chunks
     IN \E ts \in CreationTimes(Len(posted)) :
          Settle(i, [status |-> "posted", value |-> posted,
                     ids |-> [k \in DOMAIN posted |->
                                chunkId(ts[k], posted[k].chunkIndex)]])

\* the segmentation throws inside the worker: the catch block posts []
WorkerThrows(i) ==
  /\ i \in 1..Len(workers)
  /\ workers[i].status = "running"
  /\ Settle(i, [status |-> "threw", value |-> <<>>, ids |-> <<>>])

\* worker.on('error', reject)
WorkerErrorEvent(i) ==
  /\ i \in 1..Len(workers)
  /\ workers[i].status = "running"
  /\ Settle(i, [status |-> "errored", value |-> WorkerError, ids |-> <<>>])

\* worker.on('exit') with a code other than 0
WorkerExit(i) ==
  /\ i \in 1..Len(workers)
  /\ workers[i].status = "running"
  /\ Settle(i, [status |-> "exited", value |-> WorkerExitError, ids |-> <<>>])

ParallelAlphabet == {"a", SP}

RECURSIVE ParallelTextsOfLen(_)
ParallelTextsOfLen(n) ==
  IF n = 0 THEN {<<>>}
  ELSE {Append(t, c) : t \in ParallelTextsOfLen(n - 1), c \in ParallelAlphabet}

ParallelTexts == UNION {ParallelTextsOfLen(n) : n \in 0..MaxParallelTextLen}

ParallelConfigs ==
  {c \in ChunkerConfigs :
     /\ c.strategy \in {"fixed", "sliding"}
     /\ c.chunkSize = 2}

WorkerCounts == {2, 3}

InitParallel ==
  /\ chunks = <<>>
  /\ index = EmptyMap
  /\ vectorCache = EmptyMap
  /\ config = DefaultConfig
  /\ file = <<>>
  /\ out = [op |-> "init"]
  /\ tcConfig \in ParallelConfigs
  /\ tcText = <<>>
  /\ tcOut = [op |-> "init"]
  /\ numWorkers \in WorkerCounts
  /\ workers = <<>>
  /\ call = [state |-> "idle"]
  /\ LazyIdle
  /\ StreamIdle

NextParallel ==
  \/ \E text \in ParallelTexts : ChunkTextParallel(text)
  \/ \E i \in DOMAIN workers : WorkerMessage(i)
  \/ \E i \in DOMAIN workers : WorkerThrows(i)
  \/ \E i \in DOMAIN workers : WorkerErrorEvent(i)
  \/ \E i \in DOMAIN workers : WorkerExit(i)

SpecParallel == InitParallel /\ [][NextParallel]_vars

Failed(w) == w.status \in {"threw", "errored", "exited"}

\* C13: if the segmentation task of any worker fails (it throws inside the
\* worker, the worker emits an error, or it exits abnormally),
\* chunkTextParallel never resolves with a merged result.
C13_WorkerFailureIsFatal ==
  (\E i \in DOMAIN workers : Failed(workers[i])) => call.state # "resolved"

\* C14: chunkTextParallel completes (resolves or rejects) only after every
\* dispatched worker has finished.
C14_JoinBarrier ==
  call.state \in {"resolved", "rejected"} =>
    \A i \in DOMAIN workers : workers[i].status # "running"

RECURSIVE Concat(_)
Concat(lists) ==
  IF lists = <<>> THEN <<>> ELSE Head(lists) \o Concat(Tail(lists))

\* the chunk lists the workers delivered, in segment order
Delivered == Concat([j \in DOMAIN workers |-> workers[j].value])

\* C15: for every order in which the workers of one call complete, the
\* returned sequence is the concatenation of the per-segment chunk lists in
\* segment order, each list the chunks of its segment in their own order, with
\* chunkIndex renumbered 0,1,2,... over the whole result.
C15_MergedInSegmentOrder ==
  (call.state = "resolved" /\ workers # <<>>) =>
    /\ Len(call.result) = Len(Delivered)
    /\ \A k \in 1..Len(call.result) :
         call.result[k] = [Delivered[k] EXCEPT !.chunkIndex = k - 1]
    /\ \A j \in DOMAIN workers :
         workers[j].status = "posted" =>
           workers[j].value = chunkText(tcConfig, call.segments[j]).chunks

\* the worker of the second segment completed first, and both segments gave chunks
C15_Witness ==
  /\ call.state = "resolved"
  /\ Len(workers) = 2
  /\ call.order = <<2, 1>>
  /\ Len(workers[1].value) >= 2
  /\ workers[2].value # <<>>
  /\ Len(call.result) = Len(workers[1].value) + Len(workers[2].value)
  /\ call.result[Len(call.result)].chunkIndex = Len(call.result) - 1

RECURSIVE WithoutSpaces(_)
WithoutSpaces(s) ==
  IF s = <<>> THEN <<>>
  ELSE (IF IsSpace(Head(s)) THEN <<>> ELSE <<Head(s)>>) \o WithoutSpaces(Tail(s))

\* C16: concatenating the segments of splitTextForWorkers in order reproduces
\* the input text, up to whitespace: no character of the input is missing
\* from every segment and none appears in two segments.
C16_SegmentsPartitionText ==
  call.state = "pending" =>
    WithoutSpaces(Concat(call.segments)) = WithoutSpaces(tcText)

(***************************************************************************)
(* LazyChunker.  tcText is the text it was built over and tcConfig its     *)
(* configuration.  A proxy returned by getChunk materializes its chunk at  *)
(* the first property read, which may come any time later: proxies is the  *)
(* set of indices a proxy was handed out for.  now is Date.now().          *)
(* lzHistory counts the runs of the body of processChunkAtIndex per index  *)
(* and keeps the chunk first observed for an index, both since the last    *)
(* clearCache; lzOut holds the chunks the last call let its caller observe.*)
(***************************************************************************)
MaxLazyTextLen == 3

\* String.prototype.charCodeAt for the characters of the model
CharCode(c) ==
  CASE c = NL -> 10
    [] c = SP -> 32
    [] c = DOT -> 46
    [] c = "a" -> 97
    [] c = "b" -> 98
    [] c = "c" -> 99
    [] c = "d" -> 100
    [] c = "e" -> 101
    [] c = "f" -> 102

\* the character-frequency vector the chunkers and the store compute: one
\* count per charCode % dimension, divided by the norm when it is positive.
\* The norm is summed over the indices that hold a count, the squares of the
\* other entries being 0.
CharFrequencyVector(content, dimension) ==
  LET count(i) == Cardinality({j \in DOMAIN content :
                                 CharCode(content[j]) % dimension = i})
      held == {CharCode(content[j]) % dimension : j \in DOMAIN content}
      squares == SumOver([i \in held |-> (Scale * count(i)) * (Scale * count(i))])
      norm == Sqrt(squares)
  IN [values |-> [k \in 1..dimension |->
                    IF norm > 0 THEN (Scale * count(k - 1) * Scale) \div norm
                    ELSE Scale * count(k - 1)],
      dimension |-> dimension]

TextChunkerDimension == 128
LazyChunkerDimension == 64
StreamingChunkerDimension == 64
TextToVectorDimension == 128

\* LazyChunker.generateSimpleVector
generateSimpleVector(content) == CharFrequencyVector(content, LazyChunkerDimension)

\* createChunkIndex: only the positions of the chunks of chunkText are kept
createChunkIndex(cfg, text) ==
  [k \in 1..Len(chunkText(cfg, text).chunks) |->
     [start |-> chunkText(cfg, text).chunks[k].startPosition,
      end |-> chunkText(cfg, text).chunks[k].endPosition]]

\* processChunkAtIndex on lz = [text, positions, processed, materialized] at time t
processChunkAtIndex(lz, t, i) ==
  IF MapHas(lz.processed, i) THEN lz
  ELSE LET position == lz.positions[i + 1]
           content == Slice(lz.text, position.start, position.end)
           chunk == [id |-> <<t, i>>,
                     content |-> content,
                     vector |-> generateSimpleVector(content),
                     chunkIndex |-> i,
                     startPosition |-> position.start,
                     endPosition |-> position.end]
       IN [lz EXCEPT
             !.processed = MapSet(@, i, chunk),
             !.materialized =
               MapSet(@, i, IF i \in DOMAIN @ THEN @[i] + 1 ELSE 1)]

\* if (!this.processedChunks.has(i)) this.processChunkAtIndex(i), for each
\* index of the sequence that lies within the positions
RECURSIVE ProcessEach(_, _, _)
ProcessEach(lz, t, is) ==
  IF is = <<>> THEN lz
  ELSE ProcessEach(
         IF /\ Head(is) >= 0
            /\ Head(is) < Len(lz.positions)
            /\ ~MapHas(lz.processed, Head(is))
         THEN processChunkAtIndex(lz, t, Head(is)) ELSE lz,
         t, Tail(is))

\* this.chunkPositions once the index exists
Indexed == IF isIndexed THEN chunkPositions ELSE createChunkIndex(tcConfig, tcText)

\* if (!this.isIndexed) this.createChunkIndex(), for a chunkText that returns
EnsureIndexed ==
  /\ isIndexed \/ chunkText(tcConfig, tcText).returns
  /\ isIndexed' = TRUE
  /\ chunkPositions' = Indexed

Lazy(positions) ==
  [text |-> tcText, positions |-> positions, processed |-> processedChunks,
   materialized |-> lzHistory.materialized]

\* the fields after a call that left lz and let its caller observe the chunks
\* of observed
Returning(op, lz, observed) ==
  /\ processedChunks' = lz.processed
  /\ lzHistory' = [materialized |-> lz.materialized,
                   firstSeen |-> lzHistory.firstSeen @@ observed]
  /\ lzOut' = [op |-> op, observed |-> observed]
  /\ UNCHANGED <<now, tcConfig, tcText, tcOut, storeVars, parallelVars, streamVars>>

\* the indices from, from + 1, ... below to
Range(from, to) == [k \in 1..(to - from) |-> from + k - 1]

GetTotalChunks ==
  /\ EnsureIndexed
  /\ Returning("getTotalChunks", Lazy(Indexed), EmptyMap)
  /\ UNCHANGED proxies

GetChunk(i) ==
  /\ EnsureIndexed
  /\ IF i < 0 \/ i >= Len(Indexed)
     THEN Returning("getChunk", Lazy(Indexed), EmptyMap) /\ UNCHANGED proxies
     ELSE IF MapHas(processedChunks, i)
     THEN /\ Returning("getChunk", Lazy(Indexed), MapSet(EmptyMap, i, processedChunks[i]))
          /\ UNCHANGED proxies
     ELSE /\ Returning("getChunk", Lazy(Indexed), EmptyMap)
          /\ proxies' = proxies \union {i}

\* a property of a proxy is read: the get trap of createLazyChunkProxy
ProxyGet(i) ==
  /\ i \in proxies
  /\ LET lz == IF ~MapHas(processedChunks, i)
               THEN processChunkAtIndex(Lazy(chunkPositions), now, i)
               ELSE Lazy(chunkPositions)
     IN Returning("proxy.get", lz, MapSet(EmptyMap, i, lz.processed[i]))
  /\ UNCHANGED <<isIndexed, chunkPositions, proxies>>

GetChunks(startIndex, endIndex) ==
  /\ EnsureIndexed
  /\ LET asked == {i \in 0..(Len(Indexed) - 1) : startIndex <= i /\ i < endIndex}
         cached == {i \in asked : MapHas(processedChunks, i)}
     IN /\ Returning("getChunks", Lazy(Indexed), [i \in cached |-> processedChunks[i]])
        /\ proxies' = proxies \union (asked \ cached)

\* every chunk is materialized by the read of isProcessed
GetAllChunks ==
  /\ EnsureIndexed
  /\ LET lz == ProcessEach(Lazy(Indexed), now, Range(0, Len(Indexed)))
     IN Returning("getAllChunks", lz, lz.processed)
  /\ UNCHANGED proxies

ProcessBatch(startIndex, batchSize) ==
  /\ EnsureIndexed
  /\ Returning("processBatch",
       ProcessEach(Lazy(Indexed), now,
         Range(startIndex, Min(startIndex + batchSize, Len(Indexed)))),
       EmptyMap)
  /\ UNCHANGED proxies

PreloadChunks(indices) ==
  /\ Returning("preloadChunks", ProcessEach(Lazy(chunkPositions), now, indices), EmptyMap)
  /\ UNCHANGED <<isIndexed, chunkPositions, proxies>>

ClearCache ==
  /\ processedChunks' = EmptyMap
  /\ lzHistory' = [materialized |-> EmptyMap, firstSeen |-> EmptyMap]
  /\ lzOut' = [op |-> "clearCache", observed |-> EmptyMap]
  /\ UNCHANGED <<isIndexed, chunkPositions, proxies, now,
                 tcConfig, tcText, tcOut, storeVars, parallelVars, streamVars>>

\* Date.now() moves on
Tick ==
  /\ now < MaxClock
  /\ now' = now + 1
  /\ UNCHANGED <<isIndexed, chunkPositions, processedChunks, proxies, lzHistory,
                 lzOut, tcConfig, tcText, tcOut, storeVars, parallelVars, streamVars>>

LazyTexts == {t \in ParallelTexts : Len(t) <= MaxLazyTextLen}

LazyConfigs == ParallelConfigs

InitLazy ==
  /\ chunks = <<>>
  /\ index = EmptyMap
  /\ vectorCache = EmptyMap
  /\ config = DefaultConfig
  /\ file = <<>>
  /\ out = [op |-> "init"]
  /\ tcConfig \in LazyConfigs
  /\ tcText \in LazyTexts
  /\ tcOut = [op |-> "init"]
  /\ ParallelIdle
  /\ LazyIdle
  /\ StreamIdle

NextLazy ==
  \/ GetTotalChunks
  \/ \E i \in -1..2 : GetChunk(i)
  \/ \E i \in 0..1 : ProxyGet(i)
  \/ \E r \in {<<0, 1>>, <<0, 2>>} : GetChunks(r[1], r[2])
  \/ GetAllChunks
  \/ \E r \in {<<0, 1>>, <<1, 2>>} : ProcessBatch(r[1], r[2])
  \/ \E is \in {<<1>>, <<2, 0, -1>>} : PreloadChunks(is)
  \/ ClearCache
  \/ Tick

SpecLazy == InitLazy /\ [][NextLazy]_vars

\* C17: for every index i in [0, totalChunks) the content materialized for
\* index i equals the content of the i-th chunk of chunkText(T) under the same
\* configuration, and equals T[start_i : end_i] for the recorded offsets.
C17_MaterializedIsChunkContent ==
  \A i \in DOMAIN processedChunks :
     /\ processedChunks[i].content =
          chunkText(tcConfig, tcText).chunks[i + 1].content
     /\ processedChunks[i].content =
          Slice(tcText, chunkPositions[i + 1].start, chunkPositions[i + 1].end)

\* C18: with no clearCache in between, index i is materialized at most once,
\* and every access to index i observes the same chunk (id, content and
\* vector) as the first access.
C18_MaterializedOnce ==
  /\ \A i \in DOMAIN lzHistory.materialized : lzHistory.materialized[i] <= 1
  /\ \A i \in DOMAIN lzOut.observed :
       /\ lzOut.observed[i].id = lzHistory.firstSeen[i].id
       /\ lzOut.observed[i].content = lzHistory.firstSeen[i].content
       /\ lzOut.observed[i].vector = lzHistory.firstSeen[i].vector

\* a chunk materialized at time 0 through its proxy is observed again, from
\* the cache, at a later time
C18_Witness ==
  /\ lzOut.op = "getChunk"
  /\ now > 0
  /\ 1 \in DOMAIN lzOut.observed
  /\ lzOut.observed[1].id = <<0, 1>>
  /\ 1 \in proxies
  /\ lzHistory.materialized[1] = 1

(***************************************************************************)
(* StreamingChunker.  tcConfig is its configuration and tcText the whole   *)
(* input.  scInput is the part                                             *)
(* of the input that has not been written to the stream yet; _transform    *)
(* takes the next fragment of it and _flush runs at end-of-input.  The     *)
(* loop of processBuffer runs on as long as its condition holds: it does   *)
(* not end when an extraction leaves a buffer the loop has already been    *)
(* in, and then the handler never calls back.                              *)
(***************************************************************************)
MaxStreamLen == 4

\* createChunk numbering every chunk 0
createStreamChunkIndexZero(content, chunkIndex) ==
  [content |-> content, chunkIndex |-> 0,
   startPosition |-> 0, endPosition |-> Len(content)]

createStreamChunk(content, chunkIndex) ==
  [content |-> content, chunkIndex |-> chunkIndex,
   startPosition |-> 0, endPosition |-> Len(content)]

\* the loop of extractFixedChunk from word i on, counted from 0: the words
\* taken, and i when the loop is left
RECURSIVE FixedTake(_, _, _, _)
FixedTake(cfg, words, i, currentChunk) ==
  IF i >= Len(words) THEN [i |-> i, currentChunk |-> currentChunk]
  ELSE IF Len(Join(Append(currentChunk, words[i + 1]), <<SP>>)) >= cfg.chunkSize
  THEN [i |-> i, currentChunk |-> Append(currentChunk, words[i + 1])]
  ELSE FixedTake(cfg, words, i + 1, Append(currentChunk, words[i + 1]))

extractFixedChunk(cfg, buf) ==
  LET words == SplitWords(buf)
      taken == FixedTake(cfg, words, 0, <<>>)
      rest == Join(Drop(words, Min(taken.i + 1, Len(words))), <<SP>>)
      overlapWordCount == Max(2, CeilDiv(cfg.overlap, 3))
  IN [chunkText |-> Trim(Join(taken.currentChunk, <<SP>>)),
      buffer |-> IF cfg.overlap > 0 /\ taken.i < Len(words) - 1
                 THEN Join(LastN(taken.currentChunk, overlapWordCount), <<SP>>)
                      \o <<SP>> \o rest
                 ELSE rest]

\* the loop of extractSemanticChunk from sentence i on, counted from 0
RECURSIVE SemanticTake(_, _, _, _)
SemanticTake(cfg, sentences, i, currentChunk) ==
  IF i >= Len(sentences) THEN [i |-> i, currentChunk |-> currentChunk]
  ELSE LET potentialChunk ==
             currentChunk \o (IF currentChunk # <<>> THEN <<SP>> ELSE <<>>)
                          \o sentences[i + 1]
       IN IF Len(potentialChunk) > cfg.chunkSize /\ currentChunk # <<>>
          THEN [i |-> i, currentChunk |-> currentChunk]
          ELSE SemanticTake(cfg, sentences, i + 1, potentialChunk)

extractSemanticChunk(cfg, buf) ==
  LET sentences == SplitRuns(buf, SentenceEndings)
      taken == SemanticTake(cfg, sentences, 0, <<>>)
  IN [chunkText |-> Trim(taken.currentChunk),
      buffer |-> Join(Drop(sentences, taken.i), <<DOT>>) \o <<DOT>>]

\* extractSlidingChunk for a step > 0
extractSlidingChunk(cfg, buf) ==
  [chunkText |-> Trim(Slice(buf, 0, cfg.chunkSize)),
   buffer |-> Drop(buf, Min(cfg.chunkSize - cfg.overlap, Len(buf)))]

extractChunk(cfg, buf) ==
  CASE cfg.strategy = "fixed" -> extractFixedChunk(cfg, buf)
    [] cfg.strategy = "semantic" -> extractSemanticChunk(cfg, buf)
    [] cfg.strategy = "sliding" -> extractSlidingChunk(cfg, buf)
    [] OTHER -> extractFixedChunk(cfg, buf)

\* processBuffer from sc = [buffer, chunkIndex, pushed, returns], seen being
\* the buffers the loop has been in: whether the loop ends, and what it
\* has done until it ends or comes back to a buffer of seen
RECURSIVE processBuffer(_, _, _, _)
processBuffer(cfg, isFinal, sc, seen) ==
  IF ~(Len(sc.buffer) >= cfg.chunkSize \/ (isFinal /\ Len(sc.buffer) > 0))
  THEN [sc EXCEPT !.returns = TRUE]
  ELSE IF sc.buffer \in seen THEN [sc EXCEPT !.returns = FALSE]
  ELSE LET e == extractChunk(cfg, sc.buffer)
           keep == e.chunkText # <<>> /\ Len(e.chunkText) >= cfg.minChunkSize
       IN processBuffer(cfg, isFinal,
            [sc EXCEPT
               !.buffer = e.buffer,
               !.pushed = IF keep
                          THEN Append(@, createStreamChunk(e.chunkText, sc.chunkIndex))
                          ELSE @,
               !.chunkIndex = IF keep THEN @ + 1 ELSE @],
            seen \union {sc.buffer})

Streaming(buf) ==
  [buffer |-> buf, chunkIndex |-> scChunkIndex, pushed |-> scPushed, returns |-> TRUE]

\* the fields after a handler that left sc
Handled(op, sc, ended) ==
  /\ buffer' = sc.buffer
  /\ scChunkIndex' = sc.chunkIndex
  /\ scPushed' = sc.pushed
  /\ stream' = [state |-> IF ~sc.returns THEN "hung"
                          ELSE IF ended THEN "ended" ELSE "open",
                op |-> op]
  /\ UNCHANGED <<tcConfig, tcText, tcOut, storeVars, parallelVars, lazyVars>>

\* _transform on the next n characters of the input
Transform(n) ==
  /\ stream.state = "open"
  /\ n \in 1..Len(scInput)
  /\ scInput' = Drop(scInput, n)
  /\ Handled("_transform",
       processBuffer(tcConfig, FALSE, Streaming(buffer \o Take(scInput, n)), {}),
       FALSE)

\* _flush, at end-of-input
Flush ==
  /\ stream.state = "open"
  /\ scInput = <<>>
  /\ UNCHANGED scInput
  /\ Handled("_flush",
       IF Trim(buffer) # <<>>
       THEN processBuffer(tcConfig, TRUE, Streaming(buffer), {})
       ELSE Streaming(buffer),
       TRUE)

\* the letters of an input, in the order they occur in it
Letters == <<"a", "b", "c", "d", "e", "f">>

\* the inputs of n characters: the k-th letter of an input is Letters[k], and
\* between the letters stand spaces and full stops
RECURSIVE StreamTextsOfLen(_)
StreamTextsOfLen(n) ==
  IF n = 0 THEN {<<>>}
  ELSE {Append(t, c) : t \in StreamTextsOfLen(n - 1), c \in {"a", SP, DOT}}

RECURSIVE Lettered(_, _)
Lettered(t, k) ==
  IF t = <<>> THEN <<>>
  ELSE IF Head(t) = "a" THEN <<Letters[k]>> \o Lettered(Tail(t), k + 1)
  ELSE <<Head(t)>> \o Lettered(Tail(t), k)

StreamTexts ==
  {Lettered(t, 1) : t \in UNION {StreamTextsOfLen(n) : n \in 0..MaxStreamLen}}

StreamConfigs ==
  {c \in ChunkerConfigs :
     /\ c.strategy \in {"fixed", "semantic", "sliding", "adaptive"}
     /\ <<c.chunkSize, c.overlap, c.minChunkSize>> \in {<<2, 0, 1>>, <<3, 1, 2>>}}

InitStream ==
  /\ chunks = <<>>
  /\ index = EmptyMap
  /\ vectorCache = EmptyMap
  /\ config = DefaultConfig
  /\ file = <<>>
  /\ out = [op |-> "init"]
  /\ tcConfig \in StreamConfigs
  /\ scInput \in StreamTexts
  /\ tcText = scInput
  /\ tcOut = [op |-> "init"]
  /\ ParallelIdle
  /\ LazyIdle
  /\ buffer = <<>>
  /\ scChunkIndex = 0
  /\ scPushed = <<>>
  /\ stream = [state |-> "open", op |-> "init"]

NextStream ==
  \/ \E n \in 1..MaxStreamLen : Transform(n)
  \/ Flush

SpecStream == InitStream /\ [][NextStream]_vars

\* C19: on end-of-input, flush terminates for every strategy and every
\* remaining buffer content: the remainder is passed through the extraction
\* rule, the buffer ends up empty (of anything but whitespace) and the flush
\* callback is invoked.
C19_FlushTerminates ==
  stream.op = "_flush" => (stream.state = "ended" /\ Trim(buffer) = <<>>)

\* the place in the input of the letters of a chunk: of its first and of its last
LetterRanks(content) ==
  {k \in DOMAIN Letters : \E j \in DOMAIN content : content[j] = Letters[k]}

FirstRank(content) ==
  CHOOSE k \in LetterRanks(content) : \A l \in LetterRanks(content) : k <= l

LastRank(content) ==
  CHOOSE k \in LetterRanks(content) : \A l \in LetterRanks(content) : l <= k

IsPrefix(s, t) == Len(s) <= Len(t) /\ SubSeq(t, 1, Len(s)) = s

\* the chunks pushed so far are numbered in push order and lie in input order
PushedInOrder ==
  /\ \A k \in DOMAIN scPushed : scPushed[k].chunkIndex = k - 1
  /\ \A k, l \in DOMAIN scPushed :
       ( /\ k < l
         /\ LetterRanks(scPushed[k].content) # {}
         /\ LetterRanks(scPushed[l].content) # {} )
       => /\ FirstRank(scPushed[k].content) <= FirstRank(scPushed[l].content)
          /\ LastRank(scPushed[k].content) <= LastRank(scPushed[l].content)

\* C20: across any sequence of input fragments followed by end-of-input, the
\* chunks pushed carry chunkIndex 0,1,2,... in push order, a push never
\* changes what was pushed before it, and a chunk taken from an earlier part
\* of the input is never pushed after a chunk taken from a later part.
C20_PushedInInputOrder ==
  /\ PushedInOrder
  /\ [][PushedInOrder' /\ IsPrefix(scPushed, scPushed')]_vars

\* the fragments and the end of the input gave two chunks, the second at flush
C20_Witness ==
  /\ stream.state = "ended"
  /\ tcConfig.strategy = "fixed"
  /\ Len(scPushed) = 2
  /\ scPushed[1].content = <<"a", "b">>
  /\ scPushed[2].content = <<"c">>
  /\ scPushed[2].chunkIndex = 1

(***************************************************************************)
(* SpecConfig: a TextChunker constructed with a partial configuration,     *)
(* under updateConfig and getConfig.                                       *)
(***************************************************************************)
DefaultChunkingConfig ==
  [chunkSize |-> 512, overlap |-> 50, strategy |-> "fixed",
   preserveParagraphs |-> TRUE, minChunkSize |-> 100, maxChunkSize |-> 1024]

\* this.config = { ...defaults, ...config }
NewTextChunker(partial) == partial @@ DefaultChunkingConfig

\* this.config = { ...this.config, ...newConfig }
updateConfig(cfg, newConfig) == newConfig @@ cfg

\* return { ...this.config }
getConfig(cfg) == cfg

UpdateConfig(newConfig) ==
  /\ tcConfig' = updateConfig(tcConfig, newConfig)
  /\ tcOut' = [op |-> "updateConfig", newConfig |-> newConfig, error |-> NoError]
  /\ UNCHANGED <<tcText, storeVars, componentVars>>

GetConfig ==
  /\ tcOut' = [op |-> "getConfig", config |-> getConfig(tcConfig)]
  /\ UNCHANGED <<tcConfig, tcText, storeVars, componentVars>>

PartialConfigs ==
  { EmptyMap,
    [chunkSize |-> -100],
    [chunkSize |-> 2],
    [chunkSize |-> 4, overlap |-> 0, minChunkSize |-> 1],
    [overlap |-> 5],
    [minChunkSize |-> 3],
    [maxChunkSize |-> 1],
    [strategy |-> "semantic"] }

InitConfig ==
  /\ chunks = <<>>
  /\ index = EmptyMap
  /\ vectorCache = EmptyMap
  /\ config = DefaultConfig
  /\ file = <<>>
  /\ out = [op |-> "init"]
  /\ tcConfig \in {NewTextChunker(p) : p \in PartialConfigs}
  /\ tcText = <<>>
  /\ tcOut = [op |-> "init"]
  /\ ComponentsIdle

NextConfig ==
  \/ \E p \in PartialConfigs : UpdateConfig(p)
  \/ GetConfig

SpecConfig == InitConfig /\ [][NextConfig]_vars

ValidChunkingConfig(cfg) ==
  /\ cfg.overlap < cfg.chunkSize
  /\ cfg.minChunkSize <= cfg.chunkSize
  /\ cfg.chunkSize <= cfg.maxChunkSize

\* C21: after the constructor and after any sequence of updateConfig calls,
\* the configuration getConfig returns has overlap < chunkSize and
\* minChunkSize <= chunkSize <= maxChunkSize; an update that would violate
\* this is rejected with an error and leaves the configuration unchanged.
C21_ConfigStaysValid ==
  [][ /\ tcOut'.op = "getConfig" => ValidChunkingConfig(tcOut'.config)
      /\ ( /\ tcOut'.op = "updateConfig"
           /\ ~ValidChunkingConfig(tcOut'.newConfig @@ tcConfig) )
         => (tcOut'.error # NoError /\ tcConfig' = tcConfig) ]_vars

(***************************************************************************)
(* SpecVectorMath: the VectorMath operations applied to vectors whose      *)
(* values array is as long as, shorter than or longer than their dimension.*)
(***************************************************************************)
\* a value returned by an operation that returns no number
Value(v) == [kind |-> "value", value |-> v]

\* a.values.map((val, i) => val + b.values[i]): one entry per entry of
\* a.values, NaN where b.values[i] is undefined
add(a, b) ==
  IF a.dimension # b.dimension THEN Throw(DimensionError)
  ELSE Value([values |-> [i \in 1..Len(a.values) |->
                            IF i <= Len(b.values) THEN a.values[i] + b.values[i]
                                                  ELSE NaN],
              dimension |-> a.dimension])

subtract(a, b) ==
  IF a.dimension # b.dimension THEN Throw(DimensionError)
  ELSE Value([values |-> [i \in 1..Len(a.values) |->
                            IF i <= Len(b.values) THEN a.values[i] - b.values[i]
                                                  ELSE NaN],
              dimension |-> a.dimension])

scale(vector, scalar) ==
  Value([vector EXCEPT !.values =
           [i \in 1..Len(vector.values) |-> vector.values[i] * scalar]])

\* equals answers for every pair of vectors
equalsIgnoringDimension(a, b) ==
  Value(\A i \in 1..a.dimension :
          (i <= Len(a.values) /\ i <= Len(b.values)) => a.values[i] = b.values[i])

\* Math.abs(a.values[i] - b.values[i]) > Number.EPSILON is false when either
\* entry is undefined; Number.EPSILON is below one fixed-point unit
equals(a, b) ==
  IF a.dimension # b.dimension THEN Value(FALSE)
  ELSE Value(\A i \in 1..a.dimension :
               (i <= Len(a.values) /\ i <= Len(b.values)) => a.values[i] = b.values[i])

Applied(op, a, b, result) == [op |-> op, a |-> a, b |-> b, result |-> result]

CosineSimilarity(a, b) ==
  /\ out' = Applied("cosineSimilarity", a, b, cosineSimilarity(a, b))
  /\ UNCHANGED <<chunks, index, vectorCache, config, file, chunkerVars, componentVars>>

EuclideanDistance(a, b) ==
  /\ out' = Applied("euclideanDistance", a, b, euclideanDistance(a, b))
  /\ UNCHANGED <<chunks, index, vectorCache, config, file, chunkerVars, componentVars>>

ManhattanDistance(a, b) ==
  /\ out' = Applied("manhattanDistance", a, b, manhattanDistance(a, b))
  /\ UNCHANGED <<chunks, index, vectorCache, config, file, chunkerVars, componentVars>>

DotProduct(a, b) ==
  /\ out' = Applied("dotProduct", a, b, dotProduct(a, b))
  /\ UNCHANGED <<chunks, index, vectorCache, config, file, chunkerVars, componentVars>>

Normalize(vector) ==
  /\ out' = Applied("normalize", vector, vector, Value(normalize(vector)))
  /\ UNCHANGED <<chunks, index, vectorCache, config, file, chunkerVars, componentVars>>

Add(a, b) ==
  /\ out' = Applied("add", a, b, add(a, b))
  /\ UNCHANGED <<chunks, index, vectorCache, config, file, chunkerVars, componentVars>>

Subtract(a, b) ==
  /\ out' = Applied("subtract", a, b, subtract(a, b))
  /\ UNCHANGED <<chunks, index, vectorCache, config, file, chunkerVars, componentVars>>

ScaleVector(vector, scalar) ==
  /\ out' = Applied("scale", vector, vector, scale(vector, scalar))
  /\ UNCHANGED <<chunks, index, vectorCache, config, file, chunkerVars, componentVars>>

Equals(a, b) ==
  /\ out' = Applied("equals", a, b, equals(a, b))
  /\ UNCHANGED <<chunks, index, vectorCache, config, file, chunkerVars, componentVars>>

Malformed(v) == Len(v.values) # v.dimension

\* vectors of dimension 1 and 2, and vectors whose values array is shorter
\* or longer than their dimension
MathVectors ==
  { Vec(<<Scale>>), Vec(<<0>>), Vec(<<Scale, 0>>), Vec(<<0, 0>>),
    Vec(<<60, 80>>),
    [values |-> <<Scale>>, dimension |-> 2],
    [values |-> <<0>>, dimension |-> 2],
    [values |-> <<Scale, 0>>, dimension |-> 1] }

Scalars == {0, 2}

InitVectorMath ==
  /\ chunks = <<>>
  /\ index = EmptyMap
  /\ vectorCache = EmptyMap
  /\ config = DefaultConfig
  /\ file = <<>>
  /\ out = [op |-> "init"]
  /\ ChunkerIdle
  /\ ComponentsIdle

NextVectorMath ==
  \/ \E a, b \in MathVectors : CosineSimilarity(a, b)
  \/ \E a, b \in MathVectors : EuclideanDistance(a, b)
  \/ \E a, b \in MathVectors : ManhattanDistance(a, b)
  \/ \E a, b \in MathVectors : DotProduct(a, b)
  \/ \E v \in MathVectors : Normalize(v)
  \/ \E a, b \in MathVectors : Add(a, b)
  \/ \E a, b \in MathVectors : Subtract(a, b)
  \/ \E v \in MathVectors, s \in Scalars : ScaleVector(v, s)
  \/ \E a, b \in MathVectors : Equals(a, b)

SpecVectorMath == InitVectorMath /\ [][NextVectorMath]_vars

DimensionChecked ==
  {"cosineSimilarity", "euclideanDistance", "manhattanDistance", "dotProduct",
   "add", "subtract"}

\* C22: cosineSimilarity, euclideanDistance, manhattanDistance, dotProduct,
\* add and subtract fail with the dimension-mismatch error whenever
\* a.dimension differs from b.dimension; equals returns false in that case.
C22_DimensionMismatchFails ==
  (out.op # "init" /\ out.a.dimension # out.b.dimension) =>
    /\ out.op \in DimensionChecked => out.result = Throw(DimensionError)
    /\ out.op = "equals" => out.result = Value(FALSE)

C22_Witness ==
  /\ out.op = "equals"
  /\ out.a = [values |-> <<Scale, 0>>, dimension |-> 1]
  /\ out.b = Vec(<<Scale, 0>>)
  /\ out.result = Value(FALSE)

\* C23: a vector whose values array is not as long as its dimension is
\* rejected by every VectorMath operation; no operation pads or truncates it.
C23_MalformedVectorRejected ==
  (out.op # "init" /\ (Malformed(out.a) \/ Malformed(out.b))) =>
    out.result.kind = "throw"

(***************************************************************************)
(* SpecSearchByText: a store filled with chunks as the four chunkers       *)
(* create them, searched by text.                                          *)
(***************************************************************************)
MaxIndexedChunks == 2

\* TextChunker.generateSimpleVector
generateTextChunkerVector(content) ==
  CharFrequencyVector(content, TextChunkerDimension)

\* StreamingChunker.generateSimpleVector
generateStreamVector(content) ==
  CharFrequencyVector(content, StreamingChunkerDimension)

\* VectorStore.textToVector
textToVector(text) == CharFrequencyVector(text, TextToVectorDimension)

searchByText(st, cfg, text, topK, options) ==
  search(st, cfg, textToVector(text), topK, options)

Producers == {"TextChunker", "ParallelChunker", "LazyChunker", "StreamingChunker"}

\* the vector the producer's createChunk gives a chunk of this content; the
\* workers of the ParallelChunker run a TextChunker
ProducedVector(producer, content) ==
  CASE producer = "TextChunker" -> generateTextChunkerVector(content)
    [] producer = "ParallelChunker" -> generateTextChunkerVector(content)
    [] producer = "LazyChunker" -> generateSimpleVector(content)
    [] producer = "StreamingChunker" -> generateStreamVector(content)

\* the chunk a producer creates for content with index chunkIndex: its id is
\* `chunk_${Date.now()}_${chunkIndex}`
ProducedChunk(producer, content, chunkIndex) ==
  [id |-> <<producer, chunkIndex>>,
   content |-> content,
   vector |-> ProducedVector(producer, content),
   chunkIndex |-> chunkIndex,
   startPosition |-> 0,
   endPosition |-> Len(content)]

\* addChunk of the next chunk of a producer
AddProduced(producer, content) ==
  /\ Len(chunks) < MaxIndexedChunks
  /\ AddChunk(ProducedChunk(producer, content, Len(chunks)), DefaultOptions,
              MaxIndexedChunks)

SearchByText(text, topK, options) ==
  /\ out' = [op |-> "searchByText", text |-> text, topK |-> topK,
             options |-> options] @@
            searchByText(Store, config, text, topK, options)
  /\ UNCHANGED <<chunks, index, vectorCache, config, file, chunkerVars, componentVars>>

ProducedContents == {<<"a">>, <<"a", SP, "b">>}

QueryTexts == {<<"a">>, <<"b">>}

InitSearchByText ==
  /\ chunks = <<>>
  /\ index = EmptyMap
  /\ vectorCache = EmptyMap
  /\ config = DefaultConfig
  /\ file = <<>>
  /\ out = [op |-> "init"]
  /\ ChunkerIdle
  /\ ComponentsIdle

NextSearchByText ==
  \/ \E p \in Producers, c \in ProducedContents : AddProduced(p, c)
  \/ \E t \in QueryTexts, k \in {<<>>, <<1>>} : SearchByText(t, k, DefaultOptions)

SpecSearchByText == InitSearchByText /\ [][NextSearchByText]_vars

InvalidPositions(cs) == {k \in DOMAIN cs : validateChunk(cs[k]) # NoError}

\* the position of the first invalid chunk of a batch, counted from 1, or
\* one past its end
FirstInvalid(cs) ==
  IF InvalidPositions(cs) = {} THEN Len(cs) + 1
  ELSE CHOOSE k \in InvalidPositions(cs) : \A l \in InvalidPositions(cs) : k <= l

\* C25: addChunks with validation on is atomic per chunk: when the first
\* invalid chunk of the batch is at position k the call raises its validation
\* error, chunks 0..k-1 have been appended in order and can be looked up, and
\* chunk k and the chunks after it are not inserted, whatever the batchSize.
C25_AddChunksAtomicPerChunk ==
  [][ (out'.op = "addChunks" /\ out'.options.validateInput) =>
        LET cs == out'.batch
            k == FirstInvalid(cs)
        IN /\ chunks' = chunks \o SubSeq(cs, 1, k - 1)
           /\ \A j \in 1..(k - 1) : MapHas(index', cs[j].id)
           /\ out'.error = IF k > Len(cs) THEN NoError ELSE validateChunk(cs[k]) ]_vars

C25_Witness ==
  /\ out.op = "addChunks"
  /\ out.batch = <<ChunkB, WhitespaceChunk>>
  /\ out.options = OneByOne
  /\ out.error = EmptyContentError
  /\ chunks = <<ChunkB>>
  /\ getChunk(Store, "b") = <<ChunkB>>

\* C26: a loadFromFile that fails, on an unreadable or malformed file or on
\* an invalid chunk inside the snapshot, leaves the store's chunk collection,
\* id lookup and configuration as they were before the call.
C26_FailedLoadChangesNothing ==
  [][ (out'.op = "loadFromFile" /\ out'.error # NoError) =>
        (chunks' = chunks /\ index' = index /\ config' = config) ]_vars

(***************************************************************************)
(* SpecExchange: a store of validated chunks is exported to documents and  *)
(* the documents are imported into a second, empty store.                  *)
(***************************************************************************)
MaxExchangeChunks == 2

\* obj[f] under the name g, when obj has the field
Copied(obj, f, g) == IF Has(obj, f) THEN g :> obj[f] ELSE EmptyMap

\* the document exportToElasticsearch makes of one chunk
ExportedDocument(chunk, indexName, typeName, timestamp) ==
  [_index |-> indexName, _type |-> typeName] @@
  Copied(chunk, "id", "_id") @@
  [_source |->
     Copied(chunk, "content", "content") @@
     [vector |-> chunk.vector.values] @@
     Copied(chunk, "metadata", "metadata") @@
     Copied(chunk, "chunkIndex", "chunkIndex") @@
     Copied(chunk, "startPosition", "startPosition") @@
     Copied(chunk, "endPosition", "endPosition") @@
     [timestamp |-> timestamp]]

\* typeName: string = '_doc'
exportToElasticsearch(st, indexName, typeName, timestamp) ==
  \* chunk.vector.values throws on a chunk without a vector
  IF \E i \in 1..Len(st.chunks) : ~Has(st.chunks[i], "vector")
  THEN [error |-> TypeError, documents |-> <<>>]
  ELSE [error |-> NoError,
        documents |-> [i \in 1..Len(st.chunks) |->
                         ExportedDocument(st.chunks[i], indexName,
                           IF typeName = <<>> THEN "_doc" ELSE typeName[1],
                           timestamp)]]

ExportToElasticsearch(indexName, typeName, timestamp) ==
  /\ out' = [op |-> "exportToElasticsearch"] @@
            exportToElasticsearch(Store, indexName, typeName, timestamp)
  /\ UNCHANGED <<chunks, index, vectorCache, config, file, chunkerVars, componentVars>>

\* the documents of the last export are imported into a new store
ImportExported(options) ==
  /\ out.op = "exportToElasticsearch"
  /\ out.error = NoError
  /\ LET r == importFromElasticsearch(EmptyStore, out.documents, options)
     IN out' = [op |-> "importFromElasticsearch", documents |-> out.documents,
                options |-> options, imported |-> r.st, error |-> r.error]
  /\ UNCHANGED <<chunks, index, vectorCache, config, file, chunkerVars, componentVars>>

ExchangeChunkA ==
  [id |-> "a", content |-> <<"x", SP, "y">>, vector |-> Vec(<<One, 0>>),
   metadata |-> [lang |-> "en"], chunkIndex |-> 1,
   startPosition |-> 2, endPosition |-> 5]

ExchangeChunks == {ExchangeChunkA, ChunkB, ChunkA2, WhitespaceChunk}

InitExchange ==
  /\ chunks = <<>>
  /\ index = EmptyMap
  /\ vectorCache = EmptyMap
  /\ config = DefaultConfig
  /\ file = <<>>
  /\ out = [op |-> "init"]
  /\ ChunkerIdle
  /\ ComponentsIdle

NextExchange ==
  \/ \E c \in ExchangeChunks : AddChunk(c, DefaultOptions, MaxExchangeChunks)
  \/ \E t \in {<<>>, <<"chunk">>}, ts \in {0, 1} : ExportToElasticsearch("idx", t, ts)
  \/ \E o \in {DefaultOptions, OneByOne} : ImportExported(o)

SpecExchange == InitExchange /\ [][NextExchange]_vars

ExchangedFields ==
  {"id", "content", "metadata", "chunkIndex", "startPosition", "endPosition"}

\* C27: the documents exported from a store of valid chunks, imported into an
\* empty store, give in the same order chunks with the same id, content,
\* vector values, metadata, chunkIndex, startPosition and endPosition; the
\* export has one document per stored chunk, whose _id is the chunk's id.
C27_DocumentRoundTrip ==
  /\ (out.op = "exportToElasticsearch") =>
       /\ out.error = NoError
       /\ Len(out.documents) = Len(chunks)
       /\ \A k \in DOMAIN chunks : out.documents[k]._id = chunks[k].id
  /\ (out.op = "importFromElasticsearch") =>
       /\ out.error = NoError
       /\ Len(out.imported.chunks) = Len(chunks)
       /\ \A k \in DOMAIN chunks :
            /\ \A f \in ExchangedFields : out.imported.chunks[k][f] = chunks[k][f]
            /\ out.imported.chunks[k].vector.values = chunks[k].vector.values

C27_Witness ==
  /\ out.op = "importFromElasticsearch"
  /\ chunks = <<ChunkB, ExchangeChunkA>>
  /\ out.imported.chunks = <<ChunkB, ExchangeChunkA>>
  /\ out.documents[2]._source.timestamp = 1

\* offset p of the text lies inside a word: the characters before and after
\* it are both not whitespace
InsideWord(text, p) ==
  /\ p > 0
  /\ p < Len(text)
  /\ ~IsSpace(text[p])
  /\ ~IsSpace(text[p + 1])

\* the spans of the segments splitTextForWorkers returns
SegmentSpans(text, n) ==
  {SplitSpans(text, n, 0)[k] : k \in
     {l \in DOMAIN SplitSpans(text, n, 0) : Trim(SplitLoop(text, n, 0)[l]) # <<>>}}

\* C28: no segment of splitTextForWorkers begins or ends inside a word of
\* the input.
C28_SegmentsCutAtWhitespace ==
  call.state = "pending" =>
    \A span \in SegmentSpans(tcText, numWorkers) :
       ~InsideWord(tcText, span.start) /\ ~InsideWord(tcText, span.end)

\* C29: processing one input fragment always terminates and leaves a buffer
\* shorter than chunkSize, for every strategy and every configuration with
\* 0 <= overlap < chunkSize.
C29_TransformTerminates ==
  (stream.op = "_transform" /\ 0 <= tcConfig.overlap
                            /\ tcConfig.overlap < tcConfig.chunkSize) =>
    (stream.state = "open" /\ Len(buffer) < tcConfig.chunkSize)

\* the non-empty paragraphs of a text, trimmed
RECURSIVE TrimmedParagraphs(_)
TrimmedParagraphs(paragraphs) ==
  IF paragraphs = <<>> THEN <<>>
  ELSE (IF Trim(Head(paragraphs)) = <<>> THEN <<>> ELSE <<Trim(Head(paragraphs))>>)
       \o TrimmedParagraphs(Tail(paragraphs))

\* the contents made of whole consecutive paragraphs of a text
ParagraphRuns(text) ==
  LET ps == TrimmedParagraphs(SplitParagraphs(text))
  IN {Join(SubSeq(ps, i, j), <<NL, NL>>) : i \in DOMAIN ps, j \in DOMAIN ps}

\* C30: configured with the strategy adaptive, the StreamingChunker only
\* emits chunks made of whole paragraphs of the input, never splitting inside
\* a paragraph, as adaptiveChunking does on the same text.
C30_AdaptiveEmitsWholeParagraphs ==
  tcConfig.strategy = "adaptive" =>
    \A k \in DOMAIN scPushed : scPushed[k].content \in ParagraphRuns(tcText)

\* the trimmed windows text[k*step : k*step + chunkSize] for the k >= 0 with
\* k*step < len(text), in increasing k
TrimmedWindows(cfg, text) ==
  LET step == cfg.chunkSize - cfg.overlap
  IN [k \in 1..CeilDiv(Len(text), step) |->
        Trim(Slice(text, (k - 1) * step, (k - 1) * step + cfg.chunkSize))]

SlidingApplies ==
  /\ Chunked
  /\ tcConfig.strategy = "sliding"
  /\ Len(tcText) > tcConfig.chunkSize
  /\ 0 <= tcConfig.overlap
  /\ tcConfig.overlap < tcConfig.chunkSize

\* C31: with the sliding strategy, len(text) > chunkSize and 0 <= overlap <
\* chunkSize, the returned chunks are in increasing k exactly the trimmed
\* windows text[k*step : k*step + chunkSize] whose length is at least
\* minChunkSize, and every content length is at most chunkSize.
C31_SlidingWindows ==
  SlidingApplies =>
    /\ [k \in DOMAIN tcOut.chunks |-> tcOut.chunks[k].content] =
         SelectSeq(TrimmedWindows(tcConfig, tcText),
                   LAMBDA w : Len(w) >= tcConfig.minChunkSize)
    /\ \A k \in DOMAIN tcOut.chunks :
         Len(tcOut.chunks[k].content) <= tcConfig.chunkSize

\* the window between two kept windows is blank and is dropped
C31_Witness ==
  /\ SlidingApplies
  /\ tcText = <<"a", SP, SP, SP, "a">>
  /\ tcConfig.chunkSize = 2
  /\ tcConfig.overlap = 0
  /\ Len(tcOut.chunks) = 2
  /\ tcOut.chunks[2].content = <<"a">>

(***************************************************************************)
(* SpecReconfigure: a TextChunker whose configuration is changed by        *)
(* updateConfig between calls of chunkText on one text.                    *)
(***************************************************************************)
MaxReconfigureTextLen == 3

ReconfigureTexts == {t \in Texts : Len(t) <= MaxReconfigureTextLen}

InitialConfigs ==
  {c \in ChunkerConfigs :
     <<c.chunkSize, c.overlap, c.minChunkSize>> \in {<<2, 0, 1>>, <<3, 1, 2>>}}

ConfigUpdates ==
  { [overlap |-> 0], [overlap |-> 2], [chunkSize |-> 2],
    [strategy |-> "sliding"], [strategy |-> "fixed"] }

InitReconfigure ==
  /\ chunks = <<>>
  /\ index = EmptyMap
  /\ vectorCache = EmptyMap
  /\ config = DefaultConfig
  /\ file = <<>>
  /\ out = [op |-> "init"]
  /\ tcConfig \in InitialConfigs
  /\ tcText \in ReconfigureTexts
  /\ tcOut = [op |-> "init"]
  /\ ComponentsIdle

NextReconfigure ==
  \/ \E p \in ConfigUpdates : UpdateConfig(p)
  \/ GetConfig
  \/ ChunkText

SpecReconfigure == InitReconfigure /\ [][NextReconfigure]_vars

\* C32: chunkText terminates on every text for every configuration the
\* TextChunker accepts through its constructor or updateConfig.
C32_ChunkTextTerminates ==
  tcOut.op = "chunkText" => tcOut.returns

\* the sentences of a text, each trimmed and followed by the run of
\* terminators that follows it in the text (by none when the text ends
\* without one); text.split(sentenceEndings)[i] is followed by
\* text.match(sentenceEndings)[i]
AttachedSentences(text) ==
  LET pieces == SplitRuns(text, SentenceEndings)
      runs == MatchRuns(text, SentenceEndings)
      attached == [i \in DOMAIN pieces |->
                     IF Trim(pieces[i]) = <<>> THEN <<>>
                     ELSE Trim(pieces[i]) \o (IF i <= Len(runs) THEN runs[i] ELSE <<>>)]
  IN NonEmpty(attached)

Contents(cs) == [k \in DOMAIN cs |-> cs[k].content]

\* C33: with the semantic strategy every emitted chunk is the single-space
\* join of one or more consecutive whole sentences, and its content is longer
\* than chunkSize only when it consists of exactly one sentence.
C33_SemanticWholeSentences ==
  (Chunked /\ tcConfig.strategy = "semantic") =>
    LET sentences == AttachedSentences(tcText)
    IN \A k \in DOMAIN tcOut.chunks :
         /\ \E i, j \in DOMAIN sentences :
              tcOut.chunks[k].content = Join(SubSeq(sentences, i, j), <<SP>>)
         /\ Len(tcOut.chunks[k].content) > tcConfig.chunkSize =>
              \E i \in DOMAIN sentences : tcOut.chunks[k].content = sentences[i]

\* C34: in the semantic strategy the text used for a sentence in the chunks
\* ends with exactly the run of terminators that followed that sentence in
\* the input, or with none when none followed it.
C34_TerminatorReattached ==
  (Chunked /\ tcConfig.strategy = "semantic" /\ Len(tcText) > tcConfig.chunkSize) =>
    Contents(tcOut.chunks) =
      Contents(SemanticLoop(tcConfig, AttachedSentences(tcText), <<>>, 0, <<>>))


\* C35: every chunk the adaptive strategy emits is the blank-line join of
\* consecutive whole trimmed paragraphs of the text, and a chunk longer than
\* chunkSize consists of a single paragraph.
C35_AdaptiveWholeParagraphs ==
  (Chunked /\ tcConfig.strategy = "adaptive") =>
    LET ps == TrimmedParagraphs(SplitParagraphs(tcText))
    IN \A k \in DOMAIN tcOut.chunks :
         \E i \in DOMAIN ps, j \in DOMAIN ps :
           /\ i <= j
           /\ tcOut.chunks[k].content = Join(SubSeq(ps, i, j), <<NL, NL>>)
           /\ Len(tcOut.chunks[k].content) > tcConfig.chunkSize => i = j


\* the words of a chunk's content
WordsOf(chunk) == SplitWords(chunk.content)

FixedWithOverlap ==
  /\ Chunked
  /\ tcConfig.strategy = "fixed"
  /\ tcConfig.overlap > 0
  /\ tcConfig.minChunkSize <= tcConfig.chunkSize

ValidIndices(is) ==
  {is[k] : k \in DOMAIN is} \cap 0..(Len(createChunkIndex(tcConfig, tcText)) - 1)

\* C37: when preloadChunks(indices) returns, every index of indices within
\* [0, totalChunks) is among the processed chunks, whatever was called
\* before; when processBatch(start, n) returns, so is every valid index of
\* [start, start + n).
C37_PreloadMaterializes ==
  [][ /\ \A is \in {<<1>>, <<2, 0, -1>>} :
           PreloadChunks(is) =>
             \A i \in ValidIndices(is) : MapHas(processedChunks', i)
      /\ \A r \in {<<0, 1>>, <<1, 2>>} :
           ProcessBatch(r[1], r[2]) =>
             \A i \in ValidIndices(Range(r[1], r[1] + r[2])) :
               MapHas(processedChunks', i) ]_vars


\* the ids of the merged chunks: mergeChunkResults copies each chunk with its
\* id (...chunk), worker after worker
MergedIds == Concat([j \in DOMAIN workers |-> workers[j].ids])

\* C38: the chunks one chunkTextParallel call returns have pairwise distinct
\* ids, whatever the order and the timing of the workers.
C38_MergedIdsDistinct ==
  (call.state = "resolved" /\ workers # <<>>) =>
    /\ Len(MergedIds) = Len(call.result)
    /\ \A k \in DOMAIN MergedIds, l \in DOMAIN MergedIds :
         MergedIds[k] = MergedIds[l] => k = l


\* no two chunks of the sequence have the same id
DistinctIds(cs) ==
  \A i \in DOMAIN cs, j \in DOMAIN cs : IdOf(cs[i]) = IdOf(cs[j]) => i = j

\* getChunk(id) is defined exactly for the ids of the chunks search goes
\* through, and returns that chunk
SameChunks(st) ==
  /\ DOMAIN st.index = {IdOf(st.chunks[i]) : i \in DOMAIN st.chunks}
  /\ \A i \in DOMAIN st.chunks : getChunk(st, IdOf(st.chunks[i])) = <<st.chunks[i]>>

StatsAgree(st) ==
  /\ getStats(st).error = NoError
  /\ getStats(st).totalChunks = getStats(st).totalVectors

AllHaveVectors(st) == \A i \in DOMAIN st.chunks : Has(st.chunks[i], "vector")

\* a step that inserts no chunk under an id that is stored, taken from a
\* store in which none was
DistinctInsertions ==
  /\ DistinctIds(chunks)
  /\ SameChunks(Store)
  /\ DistinctIds(chunks')

FoundIds(st, query) ==
  LET found == search(st, config, query, <<>>, DefaultOptions)
  IN {IdOf(found.results[k].chunk) : k \in DOMAIN found.results}

\* C40: once removeChunk(id) has returned true, getChunk(id) is undefined and
\* no search returns a chunk with that id, also when the id had been added
\* more than once, and the other chunks keep their order; removeChunk that
\* returns false changes nothing.
C40_RemovedIsGone ==
  [][ out'.op = "removeChunk" =>
        IF out'.returns
        THEN /\ getChunk(Store', out'.id) = <<>>
             /\ \A q \in {Query1, Query2} : out'.id \notin FoundIds(Store', q)
             /\ \E i \in DOMAIN chunks :
                  chunks' = SubSeq(chunks, 1, i - 1) \o SubSeq(chunks, i + 1, Len(chunks))
        ELSE Store' = Store ]_vars

=============================================================================
